---- MODULE Spec2Model ----
(***************************************************************************)
(* Model of the batch OAuth orchestrator (scripts/src/main.ts,             *)
(* runAuthCommand) together with the console controller, the identity      *)
(* flow driver and the artifact verifier it sequences.                     *)
(*                                                                         *)
(* The browser, the console and the identity provider are the environment: *)
(* every observation the code makes of them (a locator count, a page URL,  *)
(* a status payload, a directory listing) is a nondeterministic choice at  *)
(* the step that reads it.  Time is the value of Date.now() - started of   *)
(* the polling loop that is running, in milliseconds; each wait of a loop  *)
(* advances it by the wait's length.                                       *)
(***************************************************************************)
EXTENDS Integers, Sequences, FiniteSets, TLC

\* ---------------------------------------------------------------- bounds
MaxAccounts == 2
TimeoutMs == 1200
MaxLines == 3

\* ------------------------------------------------------ program constants
LoginPollMs == 500
StartPollMs == 400
StartEnabledCapMs == 30000
ReadUrlCapMs == 4000
ReadUrlPollMs == 400
SettlePollMs == 700
SettleCapMs == 30000
StatusPollMs == 1000
FilePollMs == 1000

Min(a, b) == IF a < b THEN a ELSE b

\* page.waitForTimeout(ms) / setTimeout(ms): the loop's elapsed time after
\* the wait.
\* The same with the start time taken anew whenever the timeout would be
\* reached, so that the elapsed time never gets there.
AdvanceRestarted(e, ms) == IF e + ms >= TimeoutMs THEN 0 ELSE e + ms
Advance(e, ms) == e + ms

\* ------------------------------------------------------------- strings
None == "none"

\* String.prototype.toLowerCase on the strings of the model.
Lower(s) ==
  CASE s = "A@X.com" -> "a@x.com"
    [] s = "B@x.com" -> "b@x.com"
    [] s = "Success" -> "success"
    [] s = "CPAMC" -> "cpamc"
    [] s = "OAuth" -> "oauth"
    [] s = "URL" -> "url"
    [] s = "Timeout" -> "timeout"
    [] s = "ENOENT:" -> "enoent:"
    [] s = "Target" -> "target"
    [] s = "A" -> "a"
    [] s = "Management" -> "management"
    [] s = "Key" -> "key"
    [] s = "Two-Factor" -> "two-factor"
    [] s = "Log" -> "log"
    [] s = "Codex" -> "codex"
    [] s = "Enter" -> "enter"
    [] OTHER -> s

LowerWords(ws) == [k \in 1..Len(ws) |-> Lower(ws[k])]

\* String.prototype.includes on word sequences: kw occurs contiguously in ws.
Includes(ws, kw) ==
  \E k \in 0..(Len(ws) - Len(kw)) :
    \A j \in 1..Len(kw) : ws[k + j] = kw[j]

\* The messages of the errors thrown inside an account's processing.
MessageText(m) ==
  CASE m = "invalid_key" ->
         <<"CPAMC", "login", "failed:", "invalid", "management", "key">>
    [] m = "login_timeout" ->
         <<"CPAMC", "login", "failed:", "timeout", "waiting", "for", "dashboard">>
    [] m = "start_disabled" ->
         <<"CPAMC", "OAuth", "start", "button", "is", "disabled;", "previous",
           "authentication", "may", "still", "be", "in", "progress.">>
    [] m = "auth_url_not_found" ->
         <<"CPAMC", "OAuth", "auth", "URL", "not", "found">>
    [] m = "pw_timeout" ->
         <<"Timeout", "120000ms", "exceeded.">>
    [] m = "pw_fill_timeout" ->
         <<"locator.fill:", "Timeout", "120000ms", "exceeded.", "Call", "log:",
           "waiting", "for", "locator(input[placeholder*=", "Management", "Key",
           "]).first()">>
    [] m = "pw_closed" ->
         <<"Target", "page,", "context", "or", "browser", "has", "been", "closed">>
    [] m = "bad_json" ->
         <<"Unexpected", "end", "of", "JSON", "input">>
    [] m = "enoent" ->
         <<"ENOENT:", "no", "such", "file", "or", "directory,", "scandir">>
    [] OTHER -> <<>>

\* Errors a browser call can reject with.
PwErrors == {"pw_timeout", "pw_closed"}

\* main.ts catch block: the failure code of a caught error.
ClassifyTimeoutFirst(m) ==
  LET lower == LowerWords(MessageText(m)) IN
  IF Includes(lower, <<"timeout">>) THEN "LOGIN_REJECTED"
  ELSE IF Includes(lower, <<"management", "key">>) THEN "CPAMC_LOGIN_FAILED"
  ELSE IF Includes(lower, <<"auth", "url">>) THEN "CPAMC_LINK_NOT_FOUND"
  ELSE "UNKNOWN"
ClassifyError(m) ==
  LET lower == LowerWords(MessageText(m)) IN
  IF Includes(lower, <<"management", "key">>) THEN "CPAMC_LOGIN_FAILED"
  ELSE IF Includes(lower, <<"auth", "url">>) THEN "CPAMC_LINK_NOT_FOUND"
  ELSE IF Includes(lower, <<"timeout">>) THEN "LOGIN_REJECTED"
  ELSE "UNKNOWN"

\* ------------------------------------------------------------ accounts
Emails == {"a@x.com", "B@x.com"}

\* loadAccountJson returns a non-empty list of validated accounts.
Accounts == { [email |-> e, password |-> "p1"] : e \in Emails }
AccountLists == UNION {[1..n -> Accounts] : n \in 1..MaxAccounts}

\* ------------------------------------------------------ authorization URL
\* An authorization URL: whether new URL(authUrl) parses, and the value of
\* searchParams.get("state") ("null" when the parameter is absent).
NoUrl == [parseable |-> FALSE, state |-> "nourl"]
PanelUrls ==
  { [parseable |-> TRUE, state |-> s] : s \in {"s1", "s2", "null", ""} }
\* The URL-query API may return any string that starts with "http"; the one
\* modelled here does not parse although its text holds "state=s1".
FallbackUrls == PanelUrls \cup { [parseable |-> FALSE, state |-> "s1"] }

\* config.ts getStateFromAuthUrl: undefined (None) when the URL does not
\* parse or carries no state parameter.
getStateNoParseCheck(u) ==
  IF u.state = "null" THEN None ELSE u.state
getStateFromAuthUrl(u) ==
  IF ~u.parseable THEN None
  ELSE IF u.state = "null" THEN None ELSE u.state

\* JavaScript !state for string | undefined.
Falsy(s) == s = None \/ s = ""

VARIABLES
  accounts,      \* the account list loaded from the input
  i,             \* loop index of runAuthCommand (1-based)
  pc,            \* position in runAuthCommand
  results,       \* results: AuthResult[]
  browserOpen,   \* the browser launched by chromium.launch is open
  contexts,      \* indices of the accounts whose browsing context is open
  opened,        \* indices of the accounts whose processing has started
  controlPage,   \* controlPage is defined
  authPage,      \* authPage is defined
  authUrl,       \* authUrl returned by startCodexOauthAndGetUrl
  state,         \* getStateFromAuthUrl(authUrl)
  flowResult,    \* what runLoginFlow returned
  settleExit,    \* why the settle loop of runLoginFlow ended
  challenge,     \* const challenge of runAuthCommand
  status,        \* status.status returned by pollCpamcAuthStatus
  file,          \* what waitForAuthFileByEmail returned
  err,           \* the error being thrown to the catch block
  thrownAt,      \* position of runAuthCommand at which err was thrown
  viaContinue,   \* the try block was left by a continue
  elapsed,       \* Date.now() - started of the running polling loop
  previousUrl,   \* startCodexOauthAndGetUrl: URL of the pre-click snapshot
  clickedStart,  \* startCodexOauthAndGetUrl: the start control was clicked
  hasStartBtn,   \* startCodexOauthAndGetUrl: startBtn.count() > 0
  statusPolled,  \* the status endpoint was queried for this account
  normalizedFromPayload, \* pollCpamcAuthStatus: class of the last status field
  artifactPolled,\* the artifact directory was listed for this account
  matchListed,   \* a listing of the directory held an artifact of this account
  badListed,     \* a listing held a codex-*.json file that does not parse
  slept,         \* number of inter-account delays waited so far
  exitCode,      \* process.exitCode
  dir,           \* rotate-index: the artifact directory, file name -> content
  now,           \* rotate-index: Date.now()
  outFile,       \* rotate-index: the content of the index file at outPath
  rpc,           \* rotate-index: position of each invocation
  index,         \* rotate-index: what buildRotationIndex returned to each
  raw,           \* writeRotationIndex: the index file as each invocation read it
  existingAccounts, \* writeRotationIndex: existingAccounts of each invocation
  dirChanges,    \* number of changes made to the artifact directory so far
  scanEpoch,     \* dirChanges when each invocation scanned the directory
  overlapped,    \* an invocation started while another one was running
  lastWrite,     \* what the last finished merge read, scanned and wrote
  prevWrite,     \* what the merge before that wrote
  scannedKeys,   \* keys of the entries scanned by the merges that wrote
  printed,       \* the lines written by console.log and console.error
  report,        \* the run report written to reportPath
  lines,         \* extract: the lines of the markdown input
  idx,           \* extract: index of the line forEach is at (0-based)
  byEmail,       \* extract: the Map from lower-cased email to account
  invalidLines,  \* extract: let invalid, the count of invalid lines
  errors,        \* extract: the ExtractErrors
  extractOut,    \* extract: what parseMarkdownAccounts returned
  activePage,    \* detectChallenge: the page the probe is given
  challengeNow,  \* detectChallenge: what the probe returned
  parsed         \* loadAccountJson: JSON.parse(raw) of the input file

indexerVars == <<dir, now, outFile, rpc, index, raw, existingAccounts,
                 dirChanges, scanEpoch, overlapped, lastWrite,
                 prevWrite, scannedKeys>>

outVars == <<printed, report>>
extractVars == <<lines, idx, byEmail, invalidLines, errors, extractOut>>
detectVars == <<activePage, challengeNow>>
loadVars == <<parsed>>

vars == <<accounts, i, pc, results, browserOpen, contexts, opened, controlPage,
          authPage, authUrl, state, flowResult, settleExit, challenge, status,
          file, err, thrownAt, viaContinue, elapsed, previousUrl, clickedStart,
          hasStartBtn, statusPolled, normalizedFromPayload, artifactPolled, matchListed, badListed,
          slept,
          exitCode, indexerVars, outVars, extractVars, detectVars,
          loadVars>>

batchVars == <<accounts, i, results, browserOpen, contexts, opened, slept,
               exitCode>>
pageVars == <<controlPage, authPage>>
urlVars == <<authUrl, state>>
soVars == <<previousUrl, clickedStart, hasStartBtn>>
flowVars == <<flowResult, settleExit, challenge>>
pollVars == <<status, statusPolled, normalizedFromPayload, file, artifactPolled, matchListed,
              badListed>>

NoFlow == [invalidCredentials |-> FALSE, challenge |-> FALSE, returned |-> FALSE]

ResetLocals ==
  /\ controlPage' = FALSE
  /\ authPage' = FALSE
  /\ authUrl' = NoUrl
  /\ state' = None
  /\ flowResult' = NoFlow
  /\ settleExit' = None
  /\ challenge' = FALSE
  /\ status' = None
  /\ file' = None
  /\ err' = None
  /\ thrownAt' = None
  /\ viaContinue' = FALSE
  /\ elapsed' = 0
  /\ previousUrl' = NoUrl
  /\ clickedStart' = FALSE
  /\ hasStartBtn' = FALSE
  /\ statusPolled' = FALSE
  /\ normalizedFromPayload' = None
  /\ artifactPolled' = FALSE
  /\ matchListed' = FALSE
  /\ badListed' = FALSE

\* No write of the index file has happened yet.
NoWrite == [accounts |-> {}, epoch |-> -1, now |-> -1,
            raw |-> [json |-> "unread"], existing |-> <<>>, scanned |-> <<>>]
NoPrev == [accounts |-> {}, epoch |-> -1, now |-> -1]

\* The rotate-index command is not the one that runs.
IndexerIdle ==
  /\ dir = <<>>
  /\ now = 0
  /\ outFile = [json |-> "missing"]
  /\ rpc = <<>>
  /\ index = <<>>
  /\ raw = <<>>
  /\ existingAccounts = <<>>
  /\ dirChanges = 0
  /\ scanEpoch = <<>>
  /\ overlapped = FALSE
  /\ lastWrite = NoWrite
  /\ prevWrite = NoPrev
  /\ scannedKeys = {}

\* No report has been written.
NoReport == [mode |-> "none"]

\* No page is being probed for a challenge on its own.
NoPage == [frames |-> {}, selector |-> FALSE, html |-> {}]
DetectIdle ==
  /\ activePage = NoPage
  /\ challengeNow = FALSE

\* The input file is not being loaded on its own.
NoInput == [kind |-> "unread", rows |-> <<>>]
LoadIdle == parsed = NoInput

\* The extract command is not the one that runs.
ExtractIdle ==
  /\ lines = <<>>
  /\ idx = 0
  /\ byEmail = <<>>
  /\ invalidLines = 0
  /\ errors = <<>>
  /\ extractOut = None

Init ==
  /\ accounts \in AccountLists
  /\ i = 1
  /\ pc = "start"
  /\ results = <<>>
  /\ browserOpen = FALSE
  /\ contexts = {}
  /\ opened = {}
  /\ controlPage = FALSE
  /\ authPage = FALSE
  /\ authUrl = NoUrl
  /\ state = None
  /\ flowResult = NoFlow
  /\ settleExit = None
  /\ challenge = FALSE
  /\ status = None
  /\ file = None
  /\ err = None
  /\ thrownAt = None
  /\ viaContinue = FALSE
  /\ elapsed = 0
  /\ previousUrl = NoUrl
  /\ clickedStart = FALSE
  /\ hasStartBtn = FALSE
  /\ statusPolled = FALSE
  /\ normalizedFromPayload = None
  /\ artifactPolled = FALSE
  /\ matchListed = FALSE
  /\ badListed = FALSE
  /\ slept = 0
  /\ exitCode = 0
  /\ printed = {}
  /\ report = NoReport
  /\ IndexerIdle
  /\ ExtractIdle
  /\ DetectIdle
  /\ LoadIdle

\* An AuthResult as runAuthCommand builds it (plan and the timestamps left out).
AuthResultNoCode(st, code, message, f) ==
  [email |-> accounts[i].email, status |-> st, code |-> None,
   message |-> message, file |-> f]
AuthResult(st, code, message, f) ==
  [email |-> accounts[i].email, status |-> st, code |-> code,
   message |-> message, file |-> f]

\* throw new Error(m) inside the try block of the loop body: control goes to
\* the catch block and the locals of the function that threw are gone.
Throw(m) ==
  /\ pc' = "catch"
  /\ err' = m
  /\ thrownAt' = pc
  /\ elapsed' = 0
  /\ previousUrl' = NoUrl
  /\ clickedStart' = FALSE
  /\ hasStartBtn' = FALSE

\* A browser call of the step rejects and nothing else changes.
Reject ==
  /\ \E m \in PwErrors : Throw(m)
  /\ UNCHANGED <<indexerVars, extractVars, detectVars, loadVars, outVars, batchVars, pageVars, urlVars, flowVars, pollVars, viaContinue>>

\* ------------------------------------------------------------- output
\* The secrets of a run: the management key and the accounts' passwords.
ManagementKey == "k3y"

\* The characters of an email address.
EmailChars(e) ==
  CASE e = "a@x.com" -> <<"a", "@", "x", ".", "c", "o", "m">>
    [] e = "B@x.com" -> <<"B", "@", "x", ".", "c", "o", "m">>
    [] e = "A@X.com" -> <<"A", "@", "X", ".", "c", "o", "m">>
    [] e = "a@x" -> <<"a", "@", "x">>
    [] e = " " -> <<" ">>
    [] OTHER -> <<>>

\* String.prototype.indexOf("@"): 0-based, -1 when there is none.
IndexOfAt(cs) ==
  IF \E k \in 1..Len(cs) : cs[k] = "@"
  THEN (CHOOSE k \in 1..Len(cs) :
          cs[k] = "@" /\ \A j \in 1..(k - 1) : cs[j] # "@") - 1
  ELSE -1

\* main.ts 30-34.
redactEmail(cs) ==
  LET at == IndexOfAt(cs) IN
  IF at <= 1 THEN <<"*", "*", "*">>
  ELSE SubSeq(cs, 1, 2) \o <<"*", "*", "*">> \o SubSeq(cs, at + 1, Len(cs))

\* The messages of the errors that reach main().catch.  A JSON.parse
\* SyntaxError is worded by the runtime: older ones name the position of the
\* offending token, newer ones quote the source text around it, here the end
\* of the row of account acct.
TopLevelText(m, acct) ==
  CASE m = "missing_input" -> <<"Missing", "required", "option", "--input">>
    [] m = "key_required" ->
         <<"Management", "key", "is", "required.", "Pass", "--management-key",
           "(plaintext)", "or", "set", "CPA_MANAGEMENT_KEY.">>
    [] m = "no_valid_accounts" ->
         <<"No", "valid", "accounts", "found", "in", "input", "JSON">>
    [] m = "not_array" ->
         <<"Account", "input", "must", "be", "a", "JSON", "array">>
    [] m = "json_position" ->
         <<"Unexpected", "token", "]", "in", "JSON", "at", "position", "37">>
    [] m = "json_source" ->
         <<"Unexpected", "token", "']',", "...\"", "word\":\"">>
           \o <<acct.password>> \o <<"\"},]\"", "is", "not", "valid", "JSON">>
    [] m = "launch_failed" ->
         <<"browserType.launch:", "Executable", "doesn't", "exist">>
    [] m = "write_failed" ->
         <<"EACCES:", "permission", "denied,", "open">>
    [] OTHER -> MessageText(m)

\* The errors thrown by main.ts 65-85 before the mode is looked at.
StartupErrors ==
  {"missing_input", "key_required", "no_valid_accounts", "json_position",
   "json_source", "not_array"}

\* main.ts 321-325: the error line, and the exit code.
TopLevelCatch(text) ==
  /\ printed' = printed \cup {<<"Error:">> \o text}
  /\ exitCode' = 1

\* main.ts 104-114 and 269-279: the run report (the time stamp, the base URL
\* and the directory left out).
CountResults(rs, st) == Cardinality({k \in 1..Len(rs) : rs[k].status = st})
DryRunSummary(rs) ==
  [mode |-> "dry-run", total |-> Len(rs), success |-> 0, failed |-> 0,
   skipped |-> Len(rs), results |-> rs]
RunSummary(rs) ==
  [mode |-> "run", total |-> Len(rs),
   success |-> CountResults(rs, "success"),
   failed |-> CountResults(rs, "failed"),
   skipped |-> CountResults(rs, "skipped"), results |-> rs]

\* --------------------------------------------------------- runAuthCommand
\* main.ts 64-88: the options are read and the input file is loaded.
\* accounts is the list of the valid rows of the input file, which
\* loadAccountJson returns when the file parses.
Startup ==
  /\ pc = "start"
  /\ \/ /\ \E dryRun \in BOOLEAN : pc' = IF dryRun THEN "dryRun" ELSE "launch"
        /\ UNCHANGED <<exitCode, printed>>
     \/ /\ \E m \in StartupErrors, k \in 1..Len(accounts) :
             TopLevelCatch(TopLevelText(m, accounts[k]))
        /\ pc' = "crashed"
  /\ UNCHANGED <<indexerVars, extractVars, detectVars, loadVars, report, accounts, i, results, browserOpen,
                 contexts, opened, slept, err, thrownAt, viaContinue, elapsed,
                 pageVars, urlVars, soVars, flowVars, pollVars>>

\* main.ts 93-101: the AuthResult of an account in dry-run mode.
Skipped(account) ==
  [email |-> account.email, status |-> "skipped", code |-> "UNKNOWN",
   message |-> "dry_run_only", file |-> None]
SkippedAsFailed(account) ==
  [email |-> account.email, status |-> "failed", code |-> "UNKNOWN",
   message |-> "dry_run_only", file |-> None]
DryRunResult(account) == Skipped(account)

\* main.ts 88-121: the dry run.
DryRun ==
  /\ pc = "dryRun"
  /\ results' = [k \in 1..Len(accounts) |-> DryRunResult(accounts[k])]
  /\ \/ /\ report' = DryRunSummary(results')
        /\ printed' = printed \cup
             { <<"Dry", "run", "complete.", "Accounts", "planned:",
                 ToString(Len(results'))>>,
               <<"CPAMC", "base", "URL:", "http://127.0.0.1:8317">>,
               <<"Auth", "dir:", "outDir">>,
               <<"Report", "output:", "reportPath">> }
        /\ pc' = "done"
        /\ UNCHANGED exitCode
     \/ \* writeJsonFile throws
        /\ TopLevelCatch(TopLevelText("write_failed", accounts[1]))
        /\ pc' = "failed"
        /\ UNCHANGED report
  /\ UNCHANGED <<indexerVars, extractVars, detectVars, loadVars, accounts, i, browserOpen, contexts, opened,
                 slept, err, thrownAt, viaContinue, elapsed, pageVars, urlVars,
                 soVars, flowVars, pollVars>>

\* main.ts 123-127: chromium.launch.
Launch ==
  /\ pc = "launch"
  /\ \/ /\ browserOpen' = TRUE
        /\ pc' = "loop"
        /\ UNCHANGED <<exitCode, printed>>
     \/ /\ pc' = "crashed"
        /\ TopLevelCatch(TopLevelText("launch_failed", accounts[1]))
        /\ UNCHANGED browserOpen
  /\ UNCHANGED <<indexerVars, extractVars, detectVars, loadVars, report, accounts, i, results, contexts, opened, slept, err, thrownAt,
                 viaContinue, elapsed, pageVars, urlVars, soVars, flowVars,
                 pollVars>>

\* main.ts 130-134: the loop condition and the progress line.
LoopHead ==
  /\ pc = "loop"
  /\ pc' = IF i <= Len(accounts) THEN "newContext" ELSE "closeBrowser"
  /\ printed' =
       IF i <= Len(accounts)
       THEN printed \cup
              {<<"Processing", ToString(i), "/", ToString(Len(accounts))>>
                 \o redactEmail(EmailChars(accounts[i].email))}
       ELSE printed
  /\ UNCHANGED <<indexerVars, extractVars, detectVars, loadVars, report, batchVars, err, thrownAt, viaContinue, elapsed, pageVars, urlVars,
                 soVars, flowVars, pollVars>>

\* main.ts 136: browser.newContext(), before the try block of the loop body:
\* a rejection leaves the loop through the outer finally.
NewContext ==
  /\ pc = "newContext"
  /\ opened' = opened \cup {i}
  /\ \/ /\ contexts' = contexts \cup {i}
        /\ pc' = "newPage"
     \/ /\ pc' = "abort"
        /\ UNCHANGED contexts
  /\ UNCHANGED <<indexerVars, extractVars, detectVars, loadVars, outVars, accounts, i, results, browserOpen, slept, exitCode, err, thrownAt,
                 viaContinue, elapsed, pageVars, urlVars, soVars, flowVars,
                 pollVars>>

\* main.ts 265-267 and 321-325 on the way out of a rejected newContext:
\* browser.close() in the outer finally, then main().catch sets the exit code.
Abort ==
  /\ pc = "abort"
  /\ browserOpen' = FALSE
  /\ contexts' = {}
  /\ TopLevelCatch(TopLevelText("pw_closed", accounts[i]))
  /\ pc' = "crashed"
  /\ UNCHANGED <<indexerVars, extractVars, detectVars, loadVars, report, accounts, i, results, opened, slept, err, thrownAt, viaContinue,
                 elapsed, pageVars, urlVars, soVars, flowVars, pollVars>>

\* main.ts 140: controlPage = await context.newPage().
NewControlPage ==
  /\ pc = "newPage"
  /\ \/ /\ controlPage' = TRUE
        /\ pc' = "login"
        /\ UNCHANGED <<indexerVars, extractVars, detectVars, loadVars, outVars, batchVars, authPage, err, thrownAt, viaContinue, elapsed, urlVars,
                       soVars, flowVars, pollVars>>
     \/ Reject

\* config.ts 196-206: ensureCpamcLogin up to the click on the login button.
EnsureCpamcLogin ==
  /\ pc = "login"
  /\ \/ \* no key input on the page: already logged in
        /\ pc' = "gotoOauth"
        /\ UNCHANGED <<indexerVars, extractVars, detectVars, loadVars, outVars, batchVars, pageVars, err, thrownAt, viaContinue, elapsed, urlVars,
                       soVars, flowVars, pollVars>>
     \/ \* key filled and submitted; const started = Date.now()
        /\ pc' = "loginWait"
        /\ elapsed' = 0
        /\ UNCHANGED <<indexerVars, extractVars, detectVars, loadVars, outVars, batchVars, pageVars, err, thrownAt, viaContinue, urlVars, soVars,
                       flowVars, pollVars>>
     \/ \* goto or click rejected
        Reject
     \/ \* keyInput.fill ran into its timeout
        /\ Throw("pw_fill_timeout")
        /\ UNCHANGED <<indexerVars, extractVars, detectVars, loadVars, outVars, batchVars, pageVars, urlVars,
                       flowVars, pollVars, viaContinue>>

\* config.ts 216-227: one pass of the login wait loop, or its timeout.
LoginWait ==
  /\ pc = "loginWait"
  /\ IF elapsed < TimeoutMs
     THEN \E invalidKey \in BOOLEAN, formVisible \in BOOLEAN :
            IF invalidKey
            THEN Throw("invalid_key")
            ELSE IF ~formVisible
            THEN /\ pc' = "gotoOauth"
                 /\ elapsed' = 0
                 /\ UNCHANGED <<err, thrownAt, soVars>>
            ELSE /\ elapsed' = Advance(elapsed, LoginPollMs)
                 /\ UNCHANGED <<pc, err, thrownAt, soVars>>
     ELSE Throw("login_timeout")
  /\ UNCHANGED <<indexerVars, extractVars, detectVars, loadVars, outVars, batchVars, pageVars, viaContinue, urlVars, flowVars, pollVars>>

\* config.ts 230-233: gotoOauthPage.
GotoOauthPage ==
  /\ pc = "gotoOauth"
  /\ \/ /\ pc' = "startOAuth"
        /\ UNCHANGED <<indexerVars, extractVars, detectVars, loadVars, outVars, batchVars, pageVars, err, thrownAt, viaContinue, elapsed, urlVars,
                       soVars, flowVars, pollVars>>
     \/ Reject

\* ------------------------------------------------ startCodexOauthAndGetUrl
\* config.ts 250: the state of the pre-click snapshot.
previousState ==
  IF previousUrl = NoUrl THEN None ELSE getStateFromAuthUrl(previousUrl)

\* config.ts 275 and 336: the condition under which a URL that was read is
\* returned at once.
UrlAccepted(u) ==
  \/ Falsy(previousState)
  \/ getStateFromAuthUrl(u) # previousState
  \/ clickedStart

\* return u from startCodexOauthAndGetUrl: main.ts 144 assigns authUrl.
ReturnAuthUrl(u) ==
  /\ authUrl' = u
  /\ pc' = "getState"
  /\ elapsed' = 0
  /\ previousUrl' = NoUrl
  /\ clickedStart' = FALSE
  /\ hasStartBtn' = FALSE
  /\ UNCHANGED <<err, thrownAt>>

\* config.ts 245-256: wait for the panel, take the snapshot, find the button.
StartOAuth ==
  /\ pc = "startOAuth"
  /\ \/ /\ \E prev \in PanelUrls \cup {NoUrl}, btn \in BOOLEAN :
             /\ previousUrl' = prev
             /\ hasStartBtn' = btn
             /\ pc' = IF btn THEN "waitEnabled" ELSE "readUrl"
        /\ clickedStart' = FALSE
        /\ elapsed' = 0
        /\ UNCHANGED <<indexerVars, extractVars, detectVars, loadVars, outVars, batchVars, pageVars, err, thrownAt, viaContinue, urlVars, flowVars,
                       pollVars>>
     \/ Reject

\* config.ts 257-265: one pass of the wait for the start control.
WaitEnabled ==
  /\ pc = "waitEnabled"
  /\ \/ /\ IF elapsed < Min(TimeoutMs, StartEnabledCapMs)
           THEN \/ \* enabled and clicked
                   /\ clickedStart' = TRUE
                   /\ pc' = "readUrl"
                   /\ elapsed' = 0
                \/ \* still disabled
                   /\ elapsed' = Advance(elapsed, StartPollMs)
                   /\ UNCHANGED <<pc, clickedStart>>
           ELSE /\ pc' = "readUrl"
                /\ elapsed' = 0
                /\ UNCHANGED clickedStart
        /\ UNCHANGED <<indexerVars, extractVars, detectVars, loadVars, outVars, batchVars, pageVars, err, thrownAt, viaContinue, urlVars,
                       previousUrl, hasStartBtn, flowVars, pollVars>>
     \/ \* enabled, the click rejected
        /\ elapsed < Min(TimeoutMs, StartEnabledCapMs)
        /\ Reject

\* config.ts 268.
readUrlTimeout ==
  IF clickedStart THEN TimeoutMs ELSE Min(TimeoutMs, ReadUrlCapMs)

\* config.ts 270-280: one pass of the loop that reads the URL off the panel.
ReadUrl ==
  /\ pc = "readUrl"
  /\ IF elapsed < readUrlTimeout
     THEN \E maybe \in PanelUrls \cup {NoUrl} :
            IF maybe # NoUrl /\ UrlAccepted(maybe)
            THEN ReturnAuthUrl(maybe)
            ELSE /\ elapsed' = Advance(elapsed, ReadUrlPollMs)
                 /\ UNCHANGED <<pc, err, thrownAt, authUrl, soVars>>
     ELSE /\ pc' = "fallback"
          /\ elapsed' = 0
          /\ UNCHANGED <<err, thrownAt, authUrl, soVars>>
  /\ UNCHANGED <<indexerVars, extractVars, detectVars, loadVars, outVars, batchVars, pageVars, viaContinue, state, flowVars, pollVars>>

\* config.ts 282-356: the URL-query API fallback and the final choices.
Fallback ==
  /\ pc = "fallback"
  /\ \/ /\ \E fb \in FallbackUrls \cup {NoUrl}, btn \in BOOLEAN, enabled \in BOOLEAN :
             IF fb # NoUrl /\ UrlAccepted(fb)
             THEN ReturnAuthUrl(fb)
             ELSE IF ~clickedStart /\ btn /\ ~enabled
             THEN Throw("start_disabled") /\ UNCHANGED authUrl
             ELSE IF previousUrl # NoUrl
             THEN ReturnAuthUrl(previousUrl)
             ELSE IF fb # NoUrl
             THEN ReturnAuthUrl(fb)
             ELSE Throw("auth_url_not_found") /\ UNCHANGED authUrl
        /\ UNCHANGED <<indexerVars, extractVars, detectVars, loadVars, outVars, batchVars, pageVars, viaContinue, state, flowVars,
                       pollVars>>
     \/ Reject

\* ------------------------------------------------- runAuthCommand, cont.
\* results.push({status: "failed", code, message}); continue;
RecordAndContinue(code, message) ==
  /\ results' = Append(results, AuthResult("failed", code, message, None))
  /\ viaContinue' = TRUE
  /\ pc' = "finally"

\* The continue without the push.
ContinueOnly(code, message) ==
  /\ results' = results
  /\ viaContinue' = TRUE
  /\ pc' = "finally"

\* main.ts 146-157: the attempt without a state.
RecordMissingState(code, message) == RecordAndContinue(code, message)

\* main.ts 145-159: the state of the authorization URL.
GetState ==
  /\ pc = "getState"
  /\ state' = getStateFromAuthUrl(authUrl)
  /\ IF Falsy(state')
     THEN RecordMissingState("CPAMC_LINK_NOT_FOUND", "state_not_found")
     ELSE /\ pc' = "newAuthPage"
          /\ UNCHANGED <<results, viaContinue>>
  /\ UNCHANGED <<indexerVars, extractVars, detectVars, loadVars, outVars, accounts, i, browserOpen, contexts, opened, slept, exitCode,
                 pageVars, err, thrownAt, elapsed, authUrl, soVars, flowVars, pollVars>>

\* main.ts 159: authPage = await context.newPage().
NewAuthPage ==
  /\ pc = "newAuthPage"
  /\ \/ /\ authPage' = TRUE
        /\ pc' = "loginFlow"
        /\ UNCHANGED <<indexerVars, extractVars, detectVars, loadVars, outVars, batchVars, controlPage, err, thrownAt, viaContinue, elapsed,
                       urlVars, soVars, flowVars, pollVars>>
     \/ Reject

\* ------------------------------------------------------------ runLoginFlow
\* What a challenge probe sees of a page: the body texts of its frames,
\* whether a configured challenge selector is visible, and which phrases the
\* page content holds, as written.
FrameTexts == { <<"Log", "in", "to", "Codex">>, <<"Enter", "the", "code">> }
PagePhrases == {"verification", "two-factor", "Two-Factor"}
Pages == [frames : SUBSET FrameTexts, selector : BOOLEAN,
          html : SUBSET PagePhrases]

\* login-flow.ts 36-39: /to Codex/i on the body text of a frame.
frameLooksLikeConsent(bodyText) ==
  Includes(LowerWords(bodyText), <<"to", "codex">>)

\* login-flow.ts 41-48.
onCodexConsentPage(p) == \E f \in p.frames : frameLooksLikeConsent(f)

\* config.ts 88-95 (the ASCII patterns) and login-flow.ts 25.
challengeTextPatterns == {"verification", "security check", "two-factor", "2-step"}
overlyBroad == {"verification"}

\* login-flow.ts 12-30.
detectChallengeSelectorFirst(p) ==
  IF p.selector THEN TRUE
  ELSE IF onCodexConsentPage(p) THEN FALSE
  ELSE \E t \in {Lower(x) : x \in challengeTextPatterns} \ overlyBroad :
         t \in {Lower(h) : h \in p.html}
detectChallenge(p) ==
  IF onCodexConsentPage(p) THEN FALSE
  ELSE IF p.selector THEN TRUE
  ELSE \E t \in {Lower(x) : x \in challengeTextPatterns} \ overlyBroad :
         t \in {Lower(h) : h \in p.html}

\* login-flow.ts 157-200: from the navigation to the authorization URL to the
\* submitted password; const started = Date.now().
LoginFlowSteps ==
  /\ pc = "loginFlow"
  /\ \/ /\ pc' = "settle"
        /\ elapsed' = 0
        /\ UNCHANGED <<indexerVars, extractVars, detectVars, loadVars, outVars, batchVars, pageVars, err, thrownAt, viaContinue, urlVars, soVars,
                       flowVars, pollVars>>
     \/ Reject

\* End of the settle loop.
LeaveSettle(why) ==
  /\ settleExit' = why
  /\ pc' = "resolve"
  /\ elapsed' = 0

\* login-flow.ts 204-235: one tick of the settle loop, or its timeout.
SettleTick ==
  /\ pc = "settle"
  /\ \/ /\ IF elapsed < TimeoutMs
           THEN \E invalid \in BOOLEAN, urlSuccess \in BOOLEAN,
                   urlCallback \in BOOLEAN, p \in Pages :
                  IF invalid THEN LeaveSettle("invalid")
                  ELSE IF urlSuccess THEN LeaveSettle("success")
                  ELSE IF urlCallback THEN LeaveSettle("callback")
                  ELSE IF detectChallenge(p) THEN LeaveSettle("challenge")
                  ELSE /\ elapsed' = Advance(elapsed, SettlePollMs)
                       /\ UNCHANGED <<pc, settleExit>>
           ELSE LeaveSettle("timeout")
        /\ UNCHANGED <<indexerVars, extractVars, detectVars, loadVars, outVars, batchVars, pageVars, err, thrownAt, viaContinue, urlVars, soVars,
                       flowResult, challenge, pollVars>>
     \/ \* a probe of the tick rejected
        /\ elapsed < TimeoutMs
        /\ Reject

\* login-flow.ts 237-249: the result is read off the active page after the loop.
Resolve ==
  /\ pc = "resolve"
  /\ \/ /\ \E invalid \in BOOLEAN, p \in Pages :
             flowResult' = [invalidCredentials |-> invalid,
                            challenge |-> detectChallenge(p),
                            returned |-> TRUE]
        /\ pc' = "mainChallenge"
        /\ UNCHANGED <<indexerVars, extractVars, detectVars, loadVars, outVars, batchVars, pageVars, err, thrownAt, viaContinue, elapsed, urlVars,
                       soVars, settleExit, challenge, pollVars>>
     \/ Reject

\* ------------------------------------------------- runAuthCommand, cont.
\* main.ts 162: flowResult.challenge || (await detectChallenge(authPage, flow));
\* the started time of pollCpamcAuthStatus follows.
MainChallenge ==
  /\ pc = "mainChallenge"
  /\ \/ /\ IF flowResult.challenge
           THEN challenge' = TRUE
           ELSE \E p \in Pages : challenge' = detectChallenge(p)
        /\ pc' = "pollStatus"
        /\ elapsed' = 0
        /\ UNCHANGED <<indexerVars, extractVars, detectVars, loadVars, outVars, batchVars, pageVars, err, thrownAt, viaContinue, urlVars, soVars,
                       flowResult, settleExit, pollVars>>
     \/ /\ ~flowResult.challenge
        /\ Reject

\* main.ts 163.
settleTimeoutMs ==
  IF flowResult.invalidCredentials \/ challenge
  THEN Min(TimeoutMs, SettleCapMs)
  ELSE TimeoutMs

\* ----------------------------------------------------- pollCpamcAuthStatus
\* The words a status string may hold.
StatusWords == {"Success", "failed", "pending"}

\* config.ts 368-373, on the set of words of the string.
normalizeStatus(words) ==
  LET s == {Lower(w) : w \in words} IN
  IF s \cap {"success", "ok", "done", "completed"} # {} THEN "success"
  ELSE IF s \cap {"error", "fail", "failed", "denied", "invalid"} # {} THEN "error"
  ELSE "waiting"

\* config.ts 464: the status returned when the loop runs into its timeout.
TimedOutAsError == "error"
TimedOutStatus == "waiting"

\* return {status: st, ...} from pollCpamcAuthStatus.
ReturnStatus(st) ==
  /\ status' = st
  /\ pc' = "decide"
  /\ elapsed' = 0

\* config.ts 405-464 with a state: one query of the status endpoint, or the
\* timeout.  statusRaw is the status field picked out of the payload, text the
\* whole response body, which holds that field.
PollStatus ==
  /\ pc = "pollStatus"
  /\ \/ /\ IF elapsed < settleTimeoutMs
           THEN /\ \E text \in SUBSET StatusWords : \E statusRaw \in SUBSET text :
                     LET fromPayload == normalizeStatus(statusRaw)
                         fromRaw == normalizeStatus(text)
                     IN /\ normalizedFromPayload' = fromPayload
                        /\ IF fromPayload # "waiting" THEN ReturnStatus(fromPayload)
                           ELSE IF fromRaw # "waiting" THEN ReturnStatus(fromRaw)
                           ELSE /\ elapsed' = Advance(elapsed, StatusPollMs)
                                /\ UNCHANGED <<pc, status>>
                /\ statusPolled' = TRUE
           ELSE /\ ReturnStatus(TimedOutStatus)
                /\ UNCHANGED <<statusPolled, normalizedFromPayload>>
        /\ UNCHANGED <<indexerVars, extractVars, detectVars, loadVars, outVars, batchVars, pageVars, err, thrownAt, viaContinue, urlVars, soVars,
                       flowVars, file, artifactPolled, matchListed, badListed>>
     \/ \* the query rejected
        /\ elapsed < settleTimeoutMs
        /\ \E m \in PwErrors : Throw(m)
        /\ statusPolled' = TRUE
        /\ UNCHANGED <<indexerVars, extractVars, detectVars, loadVars, outVars, batchVars, pageVars, viaContinue, urlVars, flowVars,
                       status, normalizedFromPayload, file, artifactPolled, matchListed, badListed>>

\* ------------------------------------------------- runAuthCommand, cont.
\* main.ts 166-216: the failure code the flow result and the polled status
\* lead to, or "verify" when the artifact is to be looked for.
ReconcileChallengeFirst(invalid, ch, st) ==
  IF ch THEN "CHALLENGE_REQUIRED"
  ELSE IF invalid THEN "LOGIN_REJECTED"
  ELSE IF st = "error" THEN "CPAMC_OAUTH_FAILED"
  ELSE IF st = "waiting" THEN "CPAMC_OAUTH_FAILED"
  ELSE "verify"
ReconcileNoWaiting(invalid, ch, st) ==
  IF invalid THEN "LOGIN_REJECTED"
  ELSE IF ch THEN "CHALLENGE_REQUIRED"
  ELSE IF st = "error" THEN "CPAMC_OAUTH_FAILED"
  ELSE "verify"
ReconcileNoError(invalid, ch, st) ==
  IF invalid THEN "LOGIN_REJECTED"
  ELSE IF ch THEN "CHALLENGE_REQUIRED"
  ELSE IF st = "waiting" THEN "CPAMC_OAUTH_FAILED"
  ELSE "verify"
Reconcile(invalid, ch, st) ==
  IF invalid THEN "LOGIN_REJECTED"
  ELSE IF ch THEN "CHALLENGE_REQUIRED"
  ELSE IF st = "error" THEN "CPAMC_OAUTH_FAILED"
  ELSE IF st = "waiting" THEN "CPAMC_OAUTH_FAILED"
  ELSE "verify"

\* main.ts 166-218: the result of the reconciliation is recorded, or the
\* artifact verifier is started.
Decide ==
  /\ pc = "decide"
  /\ LET code == Reconcile(flowResult.invalidCredentials, challenge, status) IN
     IF code = "verify"
     THEN /\ pc' = "waitFile"
          /\ elapsed' = 0
          /\ UNCHANGED <<results, viaContinue>>
     ELSE /\ RecordAndContinue(code,
                IF ~flowResult.invalidCredentials /\ ~challenge /\ status = "waiting"
                THEN "wait_timed_out" ELSE "status_message")
          /\ UNCHANGED elapsed
  /\ UNCHANGED <<indexerVars, extractVars, detectVars, loadVars, outVars, accounts, i, browserOpen, contexts, opened, slept, exitCode,
                 pageVars, err, thrownAt, urlVars, soVars, flowVars, pollVars>>

\* -------------------------------------------------- waitForAuthFileByEmail
\* The entries the artifact directory may hold: the path, whether the name
\* is codex-*.json, and the content ("unparsable" for a file JSON.parse
\* rejects, otherwise the value of its email field).
Files ==
  { [path |-> "codex-a.json", codex |-> TRUE, content |-> "A@X.com"],
    [path |-> "codex-b.json", codex |-> TRUE, content |-> "b@x.com"],
    [path |-> "codex-bad.json", codex |-> TRUE, content |-> "unparsable"],
    [path |-> "notes-a.json", codex |-> FALSE, content |-> "a@x.com"] }

\* The spellings of one mailbox.
Spellings(email) ==
  IF email \in {"a@x.com", "A@X.com"}
  THEN {"a@x.com", "A@X.com"}
  ELSE {"b@x.com", "B@x.com"}

\* An artifact of the account: named codex-*.json, its email field the
\* account's email up to case.
ArtifactOf(f, email) == f.codex /\ f.content \in Spellings(email)

\* config.ts 507-517: the file is taken for the account's artifact.
FileMatchesExactCase(f, email) ==
  /\ f.codex
  /\ f.content # "unparsable"
  /\ f.content = email
FileMatches(f, email) ==
  /\ f.codex
  /\ f.content # "unparsable"
  /\ Lower(f.content) = Lower(email)

\* config.ts 512-520: an error of readFileSync or JSON.parse on the file gets
\* out of the try/catch around them.
ReadErrorUncaught(f) == f.content = "unparsable"
ReadErrorEscapes(f) == FALSE

\* config.ts 505-526: one listing of the directory, or the timeout; the
\* caller's use of the result (main.ts 218-239) is part of the step.
WaitFile ==
  /\ pc = "waitFile"
  /\ \/ /\ IF elapsed < TimeoutMs
           THEN /\ \E listing \in SUBSET Files :
                     LET found == {f \in listing : FileMatches(f, accounts[i].email)}
                         escaped == {f \in listing : f.codex /\ ReadErrorEscapes(f)}
                     IN
                     /\ matchListed' =
                          (matchListed \/
                           \E f \in listing : ArtifactOf(f, accounts[i].email))
                     /\ badListed' =
                          (badListed \/
                           \E f \in listing : f.codex /\ f.content = "unparsable")
                     /\ IF escaped # {}
                        THEN /\ Throw("bad_json")
                             /\ UNCHANGED <<file, results, viaContinue>>
                        ELSE IF found # {}
                        THEN \E f \in found :
                               /\ file' = f.path
                               /\ results' = Append(results,
                                    AuthResult("success", None, None, f.path))
                               /\ pc' = "finally"
                               /\ elapsed' = 0
                               /\ UNCHANGED <<viaContinue, err, thrownAt, soVars>>
                        ELSE /\ elapsed' = Advance(elapsed, FilePollMs)
                             /\ UNCHANGED <<pc, file, results, viaContinue, err,
                                            thrownAt, soVars>>
                /\ artifactPolled' = TRUE
           ELSE /\ RecordAndContinue("WRITE_FAILED", "file_not_found")
                /\ elapsed' = 0
                /\ UNCHANGED <<file, artifactPolled, matchListed, badListed, err,
                               thrownAt, soVars>>
        /\ UNCHANGED <<indexerVars, extractVars, detectVars, loadVars, outVars, accounts, i, browserOpen,
                       contexts, opened, slept, exitCode, pageVars, urlVars,
                       flowVars, status, statusPolled, normalizedFromPayload>>
     \/ \* fs.readdirSync throws: the directory does not exist
        /\ elapsed < TimeoutMs
        /\ Throw("enoent")
        /\ artifactPolled' = TRUE
        /\ UNCHANGED <<indexerVars, extractVars, detectVars, loadVars, outVars, batchVars, pageVars,
                       viaContinue, urlVars, flowVars, status, statusPolled,
                       normalizedFromPayload, file,
                       matchListed, badListed>>

\* ------------------------------------------------- runAuthCommand, cont.
\* main.ts 240-255: the catch block.
CatchNoPush ==
  /\ pc = "catch"
  /\ results' = results
  /\ pc' = "finally"
  /\ UNCHANGED <<indexerVars, extractVars, detectVars, loadVars, outVars, accounts, i, browserOpen, contexts, opened, slept, exitCode,
                 pageVars, err, thrownAt, viaContinue, elapsed, urlVars, soVars, flowVars,
                 pollVars>>
Catch ==
  /\ pc = "catch"
  /\ results' = Append(results, AuthResult("failed", ClassifyError(err), err, None))
  /\ pc' = "finally"
  /\ UNCHANGED <<indexerVars, extractVars, detectVars, loadVars, outVars, accounts, i, browserOpen, contexts, opened, slept, exitCode,
                 pageVars, err, thrownAt, viaContinue, elapsed, urlVars, soVars, flowVars,
                 pollVars>>

\* main.ts 256-261: the contexts left open by the finally block.
ContextsAfterFinallySkippedByContinue ==
  IF viaContinue THEN contexts ELSE contexts \ {i}
ContextsAfterFinally == contexts \ {i}

\* main.ts 256-261, then the continue taken inside the try block (the loop's
\* i++) or the fall-through to the delay.
Finally ==
  /\ pc = "finally"
  /\ contexts' = ContextsAfterFinally
  /\ IF viaContinue
     THEN i' = i + 1 /\ pc' = "loop"
     ELSE i' = i /\ pc' = "sleep"
  /\ ResetLocals
  /\ UNCHANGED <<indexerVars, extractVars, detectVars, loadVars, outVars, accounts, results, browserOpen, opened, slept, exitCode>>

\* main.ts 263-264: the delay between accounts, then i++.
Sleep ==
  /\ pc = "sleep"
  /\ slept' = slept + 1
  /\ i' = i + 1
  /\ pc' = "loop"
  /\ UNCHANGED <<indexerVars, extractVars, detectVars, loadVars, outVars, accounts, results, browserOpen, contexts, opened, exitCode,
                 pageVars, err, thrownAt, viaContinue, elapsed, urlVars, soVars, flowVars,
                 pollVars>>

\* main.ts 265-267: browser.close() after the loop.
CloseBrowser ==
  /\ pc = "closeBrowser"
  /\ browserOpen' = FALSE
  /\ contexts' = {}
  /\ pc' = "report"
  /\ UNCHANGED <<indexerVars, extractVars, detectVars, loadVars, outVars, accounts, i, results, opened, slept, exitCode, pageVars, err, thrownAt,
                 viaContinue, elapsed, urlVars, soVars, flowVars, pollVars>>

\* main.ts 269-282 and 321-325: the report is written, or writing it throws
\* to main().catch.
ReportExitOnFailed ==
  /\ pc = "report"
  /\ \/ /\ report' = RunSummary(results)
        /\ printed' = printed \cup
             { <<"Auth", "run", "complete.", "Success:",
                 ToString(report'.success), "Failed:", ToString(report'.failed)>>,
               <<"Report", "output:", "reportPath">> }
        /\ pc' = "done"
        /\ exitCode' = IF report'.failed > 0 THEN 1 ELSE exitCode
     \/ \* writeJsonFile throws
        /\ TopLevelCatch(TopLevelText("write_failed", accounts[1]))
        /\ pc' = "failed"
        /\ UNCHANGED report
  /\ UNCHANGED <<indexerVars, extractVars, detectVars, loadVars, accounts, i, results, browserOpen, contexts, opened, slept,
                 pageVars, err, thrownAt, viaContinue, elapsed, urlVars, soVars, flowVars,
                 pollVars>>
Report ==
  /\ pc = "report"
  /\ \/ /\ report' = RunSummary(results)
        /\ printed' = printed \cup
             { <<"Auth", "run", "complete.", "Success:",
                 ToString(report'.success), "Failed:", ToString(report'.failed)>>,
               <<"Report", "output:", "reportPath">> }
        /\ pc' = "done"
        /\ UNCHANGED exitCode
     \/ \* writeJsonFile throws
        /\ TopLevelCatch(TopLevelText("write_failed", accounts[1]))
        /\ pc' = "failed"
        /\ UNCHANGED report
  /\ UNCHANGED <<indexerVars, extractVars, detectVars, loadVars, accounts, i, results, browserOpen, contexts, opened, slept,
                 pageVars, err, thrownAt, viaContinue, elapsed, urlVars, soVars, flowVars,
                 pollVars>>

Next ==
  \/ Startup
  \/ DryRun
  \/ Launch
  \/ LoopHead
  \/ NewContext
  \/ Abort
  \/ NewControlPage
  \/ EnsureCpamcLogin
  \/ LoginWait
  \/ GotoOauthPage
  \/ StartOAuth
  \/ WaitEnabled
  \/ ReadUrl
  \/ Fallback
  \/ GetState
  \/ NewAuthPage
  \/ LoginFlowSteps
  \/ SettleTick
  \/ Resolve
  \/ MainChallenge
  \/ PollStatus
  \/ Decide
  \/ WaitFile
  \/ Catch
  \/ Finally
  \/ Sleep
  \/ CloseBrowser
  \/ Report

Spec == Init /\ [][Next]_vars

\* Every call returns and time advances: the run takes its next step.
LiveSpec == Init /\ [][Next]_vars /\ WF_vars(Next)

\* ===================================================================
\* The rotation indexer (scripts/src/rotate.ts) as the rotate-index command
\* runs it (main.ts runRotateIndexCommand).  Each invocation is a process of
\* its own: it scans the artifact directory, reads the index file at outPath
\* and writes the merged index back; invocations share the directory, the
\* index file and the clock, and nothing else.
\* ===================================================================
\* ---------------------------------------------------------------- bounds
MaxInvocations == 2
MaxDirChanges == 1

\* ----------------------------------------------------------- JSON values
JAbsent == [kind |-> "undefined", val |-> ""]
JStr(v) == [kind |-> "string", val |-> v]
JBool(v) == [kind |-> "boolean", val |-> v]
JNum(v) == [kind |-> "number", val |-> v]

\* Date.parse: milliseconds since the epoch, or NaN.
DateParse(s) ==
  CASE s = "1970-01-01T00:00:00.000Z" -> [finite |-> TRUE, ms |-> 0]
    [] s = "1970-01-01T00:00:00.001Z" -> [finite |-> TRUE, ms |-> 1]
    [] OTHER -> [finite |-> FALSE, ms |-> 0]

\* ------------------------------------------------- the artifact directory
\* A file name is the sequence of its parts; a path is the directory
\* followed by the name.
CodexA == <<"codex-", "a", ".json">>
CodexUpperA == <<"codex-", "A", ".json">>
CodexB == <<"codex-", "b", ".json">>
NotesA == <<"notes-", "a", ".json">>
CodexGone == <<"codex-", "gone", ".json">>

\* The order in which readdirSync lists the names.
NameOrder == <<CodexUpperA, CodexA, CodexB, NotesA>>
Names == {NameOrder[k] : k \in 1..Len(NameOrder)}

\* rotate.ts 39: d.name.startsWith("codex-") && d.name.endsWith(".json").
IsArtifactName(n) == n[1] = "codex-" /\ n[Len(n)] = ".json"
ArtifactNames == {n \in Names : IsArtifactName(n)}

\* path.join(dir, name) and path.basename(file).
PathJoin(d, n) == <<d, n>>
basename(p) == p[Len(p)]

\* What a file holds: json says how JSON.parse takes the text ("absent": no
\* such file), the other fields are those of the parsed object.
Content(json, email, disabled, expired) ==
  [json |-> json, email |-> email, disabled |-> disabled, expired |-> expired]
Absent == Content("absent", JAbsent, JAbsent, JAbsent)
Unparsable == Content("unparsable", JAbsent, JAbsent, JAbsent)
JsonNull == Content("null", JAbsent, JAbsent, JAbsent)
JsonNumber == Content("number", JAbsent, JAbsent, JAbsent)
ActiveToken == Content("object", JStr(<<"b@x.com">>), JBool("false"), JAbsent)
DisabledToken ==
  Content("object", JStr(<<"B@x.com">>), JBool("true"), JStr("1970-01-01T00:00:00.000Z"))
ExpiringToken ==
  Content("object", JStr(<<"b@x.com">>), JBool("false"), JStr("1970-01-01T00:00:00.000Z"))
FutureToken ==
  Content("object", JStr(<<"b@x.com">>), JBool("false"), JStr("1970-01-01T00:00:00.001Z"))
BadDateToken == Content("object", JStr(<<"a@x.com">>), JAbsent, JStr("soon"))
OddToken == Content("object", JAbsent, JStr("true"), JNum("0"))
\* The artifacts the console writes while the indexer may be running.
NewTokens == {ActiveToken}

Directories ==
  { [n \in Names |->
       CASE n = CodexA -> FutureToken
         [] n = CodexUpperA -> DisabledToken
         [] n = CodexB -> ExpiringToken
         [] OTHER -> ActiveToken],
    [n \in Names |->
       CASE n = CodexA -> Unparsable
         [] n = CodexB -> JsonNull
         [] OTHER -> Absent],
    [n \in Names |->
       CASE n = CodexA -> OddToken
         [] n = CodexUpperA -> JsonNumber
         [] n = CodexB -> BadDateToken
         [] OTHER -> Absent] }

\* -------------------------------------------------------------- classify
\* A RotateAccountEntry.  email is a sequence of parts, as a file name is;
\* expired and status are the JSON values of the fields (JAbsent for
\* undefined).
Entry(email, f, expired, st) ==
  [email |-> email, file |-> f, expired |-> expired, status |-> st]

\* A property of the parsed value: undefined on a value that is no object.
Field(c, name) == IF c.json = "object" THEN c[name] ELSE JAbsent

\* if (x) for a string or undefined.
Truthy(x) == x.kind = "string" /\ x.val # ""

\* rotate.ts 11-34.  readFileSync throws on a missing file, JSON.parse on
\* text that is no JSON, data.email on null: all three end in the catch.
classifyExpiredFirst(f, c, t) ==
  IF c.json \in {"absent", "unparsable", "null"}
  THEN Entry(basename(f), f, JAbsent, JStr("invalid"))
  ELSE LET email == IF Field(c, "email").kind = "string"
                    THEN Field(c, "email").val ELSE basename(f)
           disabled == Field(c, "disabled") = JBool("true")
           expired == IF Field(c, "expired").kind = "string"
                      THEN Field(c, "expired") ELSE JAbsent
           exp == DateParse(expired.val)
       IN  IF Truthy(expired) /\ exp.finite /\ exp.ms < t
           THEN Entry(email, f, expired, JStr("expired"))
           ELSE IF disabled
           THEN Entry(email, f, expired, JStr("disabled"))
           ELSE Entry(email, f, expired, JStr("active"))
classifyInclusive(f, c, t) ==
  IF c.json \in {"absent", "unparsable", "null"}
  THEN Entry(basename(f), f, JAbsent, JStr("invalid"))
  ELSE LET email == IF Field(c, "email").kind = "string"
                    THEN Field(c, "email").val ELSE basename(f)
           disabled == Field(c, "disabled") = JBool("true")
           expired == IF Field(c, "expired").kind = "string"
                      THEN Field(c, "expired") ELSE JAbsent
           exp == DateParse(expired.val)
       IN  IF disabled
           THEN Entry(email, f, expired, JStr("disabled"))
           ELSE IF Truthy(expired) /\ exp.finite /\ exp.ms <= t
           THEN Entry(email, f, expired, JStr("expired"))
           ELSE Entry(email, f, expired, JStr("active"))
classify(f, c, t) ==
  IF c.json \in {"absent", "unparsable", "null"}
  THEN Entry(basename(f), f, JAbsent, JStr("invalid"))
  ELSE LET email == IF Field(c, "email").kind = "string"
                    THEN Field(c, "email").val ELSE basename(f)
           disabled == Field(c, "disabled") = JBool("true")
           expired == IF Field(c, "expired").kind = "string"
                      THEN Field(c, "expired") ELSE JAbsent
           exp == DateParse(expired.val)
       IN  IF disabled
           THEN Entry(email, f, expired, JStr("disabled"))
           ELSE IF Truthy(expired) /\ exp.finite /\ exp.ms < t
           THEN Entry(email, f, expired, JStr("expired"))
           ELSE Entry(email, f, expired, JStr("active"))

\* rotate.ts 36-57: the entries of a scan, in the order of the listing.
RECURSIVE ScanFrom(_, _, _, _)
ScanFrom(k, d, dirPath, t) ==
  IF k > Len(NameOrder) THEN <<>>
  ELSE LET n == NameOrder[k]
           rest == ScanFrom(k + 1, d, dirPath, t)
       IN  IF d[n].json # "absent" /\ IsArtifactName(n)
           THEN <<classify(PathJoin(dirPath, n), d[n], t)>> \o rest
           ELSE rest

\* accounts.filter((a) => a.status === st).length
CountStatus(accs, st) == Cardinality({k \in 1..Len(accs) : accs[k].status = JStr(st)})

\* The RotateIndex built from a list of entries (rotate.ts 48-56, 90-98).
RotateIndex(accs, t) ==
  [generated_at |-> t,
   total |-> Len(accs),
   active |-> CountStatus(accs, "active"),
   expired |-> CountStatus(accs, "expired"),
   disabled |-> CountStatus(accs, "disabled"),
   invalid |-> CountStatus(accs, "invalid"),
   accounts |-> accs]

AuthDir == "auth"

\* main.ts 288: the name of the index file when --out is absent.
OutName == <<"accounts-", "index", ".json">>
buildRotationIndex(d, t) == RotateIndex(ScanFrom(1, d, AuthDir, t), t)

\* rotate.ts 59-61.
accountKeyEmailOnly(entry) == LowerWords(entry.email) \o <<"|">>
accountKey(entry) ==
  LowerWords(entry.email) \o <<"|">> \o LowerWords(basename(entry.file))

\* ----------------------------------------------------------- index file
\* The index file: json says how JSON.parse takes its text ("missing": no
\* file at outPath); accounts is the accounts property of the parsed value,
\* an array of items or something else.
JArray(items) == [kind |-> "array", items |-> items]
NoArray == [kind |-> "undefined", items |-> <<>>]
IndexFile(json, ix, accs) ==
  [json |-> json, total |-> ix.total, active |-> ix.active,
   expired |-> ix.expired, disabled |-> ix.disabled, invalid |-> ix.invalid,
   accounts |-> accs]

\* An item of the accounts array as JSON holds it.
Item(kind, email, f, expired, st) ==
  [kind |-> kind, email |-> email, file |-> f, expired |-> expired,
   status |-> st]

\* JSON.stringify of an entry (an undefined expired is left out) and the
\* entry an accepted item is taken for.
Stringify(e) == Item("object", JStr(e.email), JStr(e.file), e.expired, e.status)
AsEntry(x) == Entry(x.email.val, x.file.val, x.expired, x.status)

\* rotate.ts 71-74: the filter on the items of parsed.accounts.
Accepted(x) ==
  /\ x.kind = "object"
  /\ x.email.kind = "string"
  /\ x.file.kind = "string"

RECURSIVE FilterAccepted(_)
FilterAccepted(items) ==
  IF items = <<>> THEN <<>>
  ELSE IF Accepted(Head(items))
  THEN <<AsEntry(Head(items))>> \o FilterAccepted(Tail(items))
  ELSE FilterAccepted(Tail(items))

\* rotate.ts 64-78: existingAccounts, or "throws" when the error of the read
\* or the parse is not caught.
ExistingUncaught(f) ==
  IF f.json = "missing" THEN [threw |-> FALSE, accounts |-> <<>>]
  ELSE IF f.json \in {"unparsable", "null"}
  THEN [threw |-> TRUE, accounts |-> <<>>]
  ELSE IF f.accounts.kind = "array"
  THEN [threw |-> FALSE, accounts |-> FilterAccepted(f.accounts.items)]
  ELSE [threw |-> FALSE, accounts |-> <<>>]
ExistingIgnored(f) == [threw |-> FALSE, accounts |-> <<>>]
Existing(f) ==
  IF f.json = "missing" THEN [threw |-> FALSE, accounts |-> <<>>]
  ELSE IF f.json \in {"unparsable", "null"}
  THEN [threw |-> FALSE, accounts |-> <<>>]
  ELSE IF f.accounts.kind = "array"
  THEN [threw |-> FALSE, accounts |-> FilterAccepted(f.accounts.items)]
  ELSE [threw |-> FALSE, accounts |-> <<>>]

\* Map.prototype.set on a map kept as the sequence of its values: a key that
\* is present keeps its place, a new key goes to the end.
MapSet(m, e) ==
  IF \E k \in 1..Len(m) : accountKey(m[k]) = accountKey(e)
  THEN [k \in 1..Len(m) |-> IF accountKey(m[k]) = accountKey(e) THEN e ELSE m[k]]
  ELSE Append(m, e)

RECURSIVE SetAll(_, _)
SetAll(m, es) ==
  IF es = <<>> THEN m ELSE SetAll(MapSet(m, Head(es)), Tail(es))

\* rotate.ts 80-88: mergedAccounts.
MergeFreshOnly(existing, fresh) == SetAll(<<>>, fresh)
MergeExistingWins(existing, fresh) == SetAll(SetAll(<<>>, fresh), existing)
Merge(existing, fresh) == SetAll(SetAll(<<>>, existing), fresh)

RECURSIVE StringifyAll(_)
StringifyAll(es) ==
  IF es = <<>> THEN <<>> ELSE <<Stringify(Head(es))>> \o StringifyAll(Tail(es))

\* rotate.ts 89-99: the text written to outPath (generated_at, which nothing
\* reads back, left out).
Persisted(accs) ==
  IndexFile("object", RotateIndex(accs, 0), JArray(StringifyAll(accs)))

\* ------------------------------------------------------------ the command
Invocations == 1..MaxInvocations
Running == {"scanned", "read"}

\* No index built, no index file read yet.
NoIndex == RotateIndex(<<>>, 0)
NoRaw == [json |-> "unread", total |-> 0, active |-> 0, expired |-> 0,
          disabled |-> 0, invalid |-> 0, accounts |-> NoArray]

\* Index files left at outPath by earlier runs, by other tools or by hand.
StaleEntry ==
  Item("object", JStr(<<"a@x.com">>), JStr(PathJoin(AuthDir, CodexGone)),
       JAbsent, JStr("active"))
OldCodexB ==
  Item("object", JStr(<<"B@x.com">>), JStr(PathJoin("old", CodexB)),
       JStr("1970-01-01T00:00:00.000Z"), JStr("expired"))
RevokedEntry ==
  Item("object", JStr(<<"a@x.com">>), JStr(PathJoin(AuthDir, CodexGone)),
       JAbsent, JStr("revoked"))
NoEmailEntry ==
  Item("object", JAbsent, JStr(PathJoin(AuthDir, CodexB)), JAbsent, JStr("active"))
NumberItem == Item("number", JAbsent, JAbsent, JAbsent, JAbsent)
PriorIndexes ==
  { IndexFile("missing", NoIndex, NoArray),
    IndexFile("unparsable", NoIndex, NoArray),
    IndexFile("null", NoIndex, NoArray),
    IndexFile("object", NoIndex, NoArray),
    IndexFile("object", NoIndex, JArray(<<OldCodexB, NumberItem, StaleEntry>>)),
    IndexFile("object", NoIndex, JArray(<<RevokedEntry, NoEmailEntry>>)) }

\* The set of the values of a sequence, and the keys of a list of entries.
Range(seq) == {seq[k] : k \in 1..Len(seq)}
Keys(accs) == {accountKey(accs[k]) : k \in 1..Len(accs)}

\* The entries a reader of the index file finds in it.
IndexEntries(f) ==
  IF f.json = "object" /\ f.accounts.kind = "array"
  THEN FilterAccepted(f.accounts.items)
  ELSE <<>>
IndexKeys(f) == Keys(IndexEntries(f))

\* The state of runAuthCommand, which the rotate-index command leaves alone.
authVars == <<accounts, i, pc, results, browserOpen, contexts, opened,
              controlPage, authPage, authUrl, state, flowResult, settleExit,
              challenge, status, file, err, thrownAt, viaContinue, elapsed,
              previousUrl, clickedStart, hasStartBtn, statusPolled,
              normalizedFromPayload,
              artifactPolled, matchListed, badListed, slept, exitCode,
              printed, report, activePage, challengeNow, parsed>>

\* The instants a clock reading can fall on: the two expired timestamps of
\* the tokens.
Instants == {0, 1}

\* Date.now(): a value no less than the last one read.
ClockReadings == {t \in Instants : t >= now}

\* main.ts 289: buildRotationIndex(dir), the invocation's first step.  The
\* invocations are numbered in the order they start in.
Scan(p) ==
  /\ rpc[p] = "idle"
  /\ IF p = 1 THEN TRUE ELSE rpc[p - 1] # "idle"
  /\ rpc' = [rpc EXCEPT ![p] = "scanned"]
  /\ \E t \in ClockReadings :
       /\ now' = t
       /\ index' = [index EXCEPT ![p] = buildRotationIndex(dir, t)]
  /\ scanEpoch' = [scanEpoch EXCEPT ![p] = dirChanges]
  /\ overlapped' = (overlapped \/ \E q \in Invocations : rpc[q] \in Running)
  /\ UNCHANGED authVars
  /\ UNCHANGED extractVars
  /\ UNCHANGED <<dir, outFile, raw, existingAccounts, dirChanges, lastWrite, prevWrite, scannedKeys>>

\* rotate.ts 64-78: the read of the index file at outPath.
ReadExisting(p) ==
  /\ rpc[p] = "scanned"
  /\ raw' = [raw EXCEPT ![p] = outFile]
  /\ IF Existing(outFile).threw
     THEN /\ rpc' = [rpc EXCEPT ![p] = "crashed"]
          /\ UNCHANGED existingAccounts
     ELSE /\ rpc' = [rpc EXCEPT ![p] = "read"]
          /\ existingAccounts' =
               [existingAccounts EXCEPT ![p] = Existing(outFile).accounts]
  /\ UNCHANGED authVars
  /\ UNCHANGED extractVars
  /\ UNCHANGED <<dir, now, outFile, index, dirChanges, scanEpoch,
                 overlapped, lastWrite, prevWrite, scannedKeys>>

\* rotate.ts 80-99: the merge and the write of the index file; main.ts
\* 291-294: the totals are logged and the process ends.
WriteMergedOverArtifact(p) ==
  /\ rpc[p] = "read"
  /\ LET merged == Merge(existingAccounts[p], index[p].accounts)
     IN  /\ outFile' = Persisted(merged)
         /\ lastWrite' = [accounts |-> Range(merged),
                          epoch |-> scanEpoch[p],
                          now |-> index[p].generated_at,
                          raw |-> raw[p],
                          existing |-> existingAccounts[p],
                          scanned |-> index[p].accounts]
  /\ prevWrite' = [accounts |-> lastWrite.accounts,
                   epoch |-> lastWrite.epoch,
                   now |-> lastWrite.now]
  /\ scannedKeys' = scannedKeys \cup Keys(index[p].accounts)
  /\ rpc' = [rpc EXCEPT ![p] = "exited"]
  /\ index' = [index EXCEPT ![p] = NoIndex]
  /\ raw' = [raw EXCEPT ![p] = NoRaw]
  /\ existingAccounts' = [existingAccounts EXCEPT ![p] = <<>>]
  /\ scanEpoch' = [scanEpoch EXCEPT ![p] = 0]
  /\ UNCHANGED authVars
  /\ UNCHANGED extractVars
  /\ dir' = [dir EXCEPT ![CodexB] = Unparsable]
  /\ UNCHANGED <<now, dirChanges, overlapped>>
WriteMerged(p) ==
  /\ rpc[p] = "read"
  /\ LET merged == Merge(existingAccounts[p], index[p].accounts)
     IN  /\ outFile' = Persisted(merged)
         /\ lastWrite' = [accounts |-> Range(merged),
                          epoch |-> scanEpoch[p],
                          now |-> index[p].generated_at,
                          raw |-> raw[p],
                          existing |-> existingAccounts[p],
                          scanned |-> index[p].accounts]
  /\ prevWrite' = [accounts |-> lastWrite.accounts,
                   epoch |-> lastWrite.epoch,
                   now |-> lastWrite.now]
  /\ scannedKeys' = scannedKeys \cup Keys(index[p].accounts)
  /\ rpc' = [rpc EXCEPT ![p] = "exited"]
  /\ index' = [index EXCEPT ![p] = NoIndex]
  /\ raw' = [raw EXCEPT ![p] = NoRaw]
  /\ existingAccounts' = [existingAccounts EXCEPT ![p] = <<>>]
  /\ scanEpoch' = [scanEpoch EXCEPT ![p] = 0]
  /\ UNCHANGED authVars
  /\ UNCHANGED extractVars
  /\ UNCHANGED <<dir, now, dirChanges, overlapped>>

\* The environment: the console writes a token file, a file is removed.
WriteArtifact(n, c) ==
  /\ dirChanges < MaxDirChanges
  /\ dir[n] # c
  /\ dir' = [dir EXCEPT ![n] = c]
  /\ dirChanges' = dirChanges + 1
  /\ UNCHANGED authVars
  /\ UNCHANGED extractVars
  /\ UNCHANGED <<now, outFile, rpc, index, raw, existingAccounts, scanEpoch, overlapped, lastWrite, prevWrite, scannedKeys>>

RemoveArtifact(n) ==
  /\ dir[n] # Absent
  /\ WriteArtifact(n, Absent)

\* main.ts 313-316: the command is rotate-index; runAuthCommand does not run.
RotateInit ==
  /\ accounts = <<>>
  /\ i = 1
  /\ pc = "rotate-index"
  /\ results = <<>>
  /\ browserOpen = FALSE
  /\ contexts = {}
  /\ opened = {}
  /\ controlPage = FALSE
  /\ authPage = FALSE
  /\ authUrl = NoUrl
  /\ state = None
  /\ flowResult = NoFlow
  /\ settleExit = None
  /\ challenge = FALSE
  /\ status = None
  /\ file = None
  /\ err = None
  /\ thrownAt = None
  /\ viaContinue = FALSE
  /\ elapsed = 0
  /\ previousUrl = NoUrl
  /\ clickedStart = FALSE
  /\ hasStartBtn = FALSE
  /\ statusPolled = FALSE
  /\ normalizedFromPayload = None
  /\ artifactPolled = FALSE
  /\ matchListed = FALSE
  /\ badListed = FALSE
  /\ slept = 0
  /\ exitCode = 0
  /\ printed = {}
  /\ report = NoReport
  /\ ExtractIdle
  /\ DetectIdle
  /\ LoadIdle
  /\ dir \in Directories
  /\ now = 0
  /\ outFile \in PriorIndexes
  /\ rpc = [p \in Invocations |-> "idle"]
  /\ index = [p \in Invocations |-> NoIndex]
  /\ raw = [p \in Invocations |-> NoRaw]
  /\ existingAccounts = [p \in Invocations |-> <<>>]
  /\ dirChanges = 0
  /\ scanEpoch = [p \in Invocations |-> 0]
  /\ overlapped = FALSE
  /\ lastWrite = NoWrite
  /\ prevWrite = NoPrev
  /\ scannedKeys = {}

RotateNext ==
  \/ \E p \in Invocations : Scan(p)
  \/ \E p \in Invocations : ReadExisting(p)
  \/ \E p \in Invocations : WriteMerged(p)
  \/ \E c \in NewTokens : WriteArtifact(CodexB, c)
  \/ RemoveArtifact(CodexB)

RotateSpec == RotateInit /\ [][RotateNext]_vars

\* ===================================================================
\* extract: io.ts parseMarkdownAccounts, main.ts runExtractCommand
\* ===================================================================
Delimiter == "----"

\* The lines of an input file, each as the sequence of its pieces: " " is
\* white space, "----" the delimiter, anything else a run of other
\* characters.
LineTexts ==
  { <<"a@x.com", "----", "p1">>,
    <<"A@X.com", "----", "p2">>,
    <<" ", "a@x.com", " ", "----", "p1", "----", "p2", " ">>,
    <<"B@x.com", "----", "p1">>,
    <<"a@x.com", "p1">>,
    <<"a@x", "----", "p1">>,
    <<"a@x.com", "----", " ">>,
    <<" ">>,
    <<>> }

\* io.ts 40: the text of the file split at its line ends, one line at least.
InputFiles == UNION { [1..n -> LineTexts] : n \in 1..MaxLines }

\* String.prototype.trim.
RECURSIVE trimStart(_)
trimStart(t) ==
  IF t = <<>> THEN t
  ELSE IF Head(t) = " " THEN trimStart(Tail(t)) ELSE t
RECURSIVE trimEnd(_)
trimEnd(t) ==
  IF t = <<>> THEN t
  ELSE IF t[Len(t)] = " " THEN trimEnd(SubSeq(t, 1, Len(t) - 1)) ELSE t
trim(t) == trimEnd(trimStart(t))

\* String.prototype.split("----"): the parts between the delimiters.
RECURSIVE split(_)
split(t) ==
  IF t = <<>> THEN << <<>> >>
  ELSE IF Head(t) = Delimiter THEN << <<>> >> \o split(Tail(t))
  ELSE LET r == split(Tail(t)) IN << <<Head(t)>> \o Head(r) >> \o Tail(r)

\* Array.prototype.join("----").
RECURSIVE join(_)
join(parts) ==
  IF parts = <<>> THEN <<>>
  ELSE IF Len(parts) = 1 THEN parts[1]
  ELSE parts[1] \o <<Delimiter>> \o join(Tail(parts))

\* The characters of a run of pieces.
RECURSIVE Chars(_)
Chars(t) == IF t = <<>> THEN <<>> ELSE EmailChars(Head(t)) \o Chars(Tail(t))

\* io.ts 5: /^[^\s@]+@[^\s@]+\.[^\s@]+$/ on the characters of the string.
EMAIL_RE(cs) ==
  LET ats == {k \in 1..Len(cs) : cs[k] = "@"} IN
  /\ \A k \in 1..Len(cs) : cs[k] # " "
  /\ Cardinality(ats) = 1
  /\ LET at == CHOOSE k \in ats : TRUE IN
       /\ at > 1
       /\ \E d \in (at + 2)..(Len(cs) - 1) : cs[d] = "."

\* io.ts 46-58 and 60-61: what the callback reads out of one line.
LineText(line) == trim(line)
LineEmail(line) == trim(split(LineText(line))[1])
LinePassword(line) == join(Tail(split(LineText(line))))

\* io.ts 47-82: "blank" for a line that is passed over, "ok" for a line that
\* is taken, else the code of the error that is reported.
LineCode(line) ==
  IF LineText(line) = <<>> THEN "blank"
  ELSE IF Len(split(LineText(line))) < 2 THEN "MISSING_DELIMITER"
  ELSE IF ~EMAIL_RE(Chars(LineEmail(line))) THEN "INVALID_EMAIL"
  ELSE IF LinePassword(line) = <<>> THEN "EMPTY_PASSWORD"
  ELSE "ok"

\* Map.prototype.set on a map kept as the sequence of its entries in
\* insertion order: a key that is present keeps its place and takes the
\* new value.
byEmailKeepFirst(m, key, value) ==
  IF \E k \in 1..Len(m) : m[k].key = key THEN m
  ELSE Append(m, [key |-> key, value |-> value])
byEmailSet(m, key, value) ==
  IF \E k \in 1..Len(m) : m[k].key = key
  THEN [k \in 1..Len(m) |->
          IF m[k].key = key THEN [key |-> key, value |-> value] ELSE m[k]]
  ELSE Append(m, [key |-> key, value |-> value])

\* main.ts 50: the plan given to every account when --plan is absent.
DefaultPlan == "free"

\* io.ts 45-85: the callback of lines.forEach, for the line after idx.
ExtractLine ==
  /\ pc = "extract"
  /\ idx < Len(lines)
  /\ LET line == lines[idx + 1]
         code == LineCode(line)
     IN IF code = "blank"
        THEN UNCHANGED <<byEmail, invalidLines, errors>>
        ELSE IF code # "ok"
        THEN /\ invalidLines' = invalidLines + 1
             /\ errors' = Append(errors, [line |-> idx + 1, code |-> code])
             /\ UNCHANGED byEmail
        ELSE /\ byEmail' = byEmailSet(byEmail, LowerWords(LineEmail(line)),
                                  [email |-> LineEmail(line),
                                   password |-> LinePassword(line),
                                   plan |-> DefaultPlan])
             /\ UNCHANGED <<invalidLines, errors>>
  /\ idx' = idx + 1
  /\ UNCHANGED <<lines, extractOut>>
  /\ UNCHANGED authVars
  /\ UNCHANGED indexerVars

\* io.ts 87-96: the accounts and the report.
ExtractResult ==
  LET accs == [k \in 1..Len(byEmail) |-> byEmail[k].value]
      nonEmpty == Cardinality({k \in 1..Len(lines) : trim(lines[k]) # <<>>})
      dup == nonEmpty - invalidLines - Len(accs)
  IN [accounts |-> accs,
      report |-> [total_lines |-> Len(lines),
                  valid_accounts |-> Len(accs),
                  invalid_lines |-> invalidLines,
                  duplicate_emails |-> IF dup > 0 THEN dup ELSE 0,
                  errors |-> errors]]

\* main.ts 53-61 after the last line: the two files are written and the
\* counts printed, or writeJsonFile throws and main().catch reports it.
ExtractFinish ==
  /\ pc = "extract"
  /\ idx = Len(lines)
  /\ \/ /\ extractOut' = ExtractResult
        /\ printed' = printed \cup
             { <<"Extracted", "accounts:", ToString(Len(byEmail))>>,
               <<"Invalid", "lines:", ToString(invalidLines)>>,
               <<"Duplicate", "emails", "replaced:",
                 ToString(ExtractResult.report.duplicate_emails)>>,
               <<"Accounts", "output:", "accounts.json">>,
               <<"Report", "output:", "accounts-report.json">> }
        /\ pc' = "done"
        /\ UNCHANGED exitCode
     \/ /\ TopLevelCatch(TopLevelText("write_failed", None))
        /\ pc' = "crashed"
        /\ UNCHANGED extractOut
  /\ UNCHANGED <<lines, idx, byEmail, invalidLines, errors>>
  /\ UNCHANGED <<accounts, i, results, browserOpen, contexts, opened, slept,
                 pageVars, urlVars, soVars, flowVars, pollVars, err, thrownAt,
                 viaContinue, elapsed, report>>
  /\ UNCHANGED <<indexerVars, detectVars, loadVars>>

\* The extract command is the one that runs: main.ts 46-51 have resolved the
\* paths and io.ts 40 has read the lines of the input file.
ExtractInit ==
  /\ accounts = <<>>
  /\ i = 1
  /\ pc = "extract"
  /\ results = <<>>
  /\ browserOpen = FALSE
  /\ contexts = {}
  /\ opened = {}
  /\ controlPage = FALSE
  /\ authPage = FALSE
  /\ authUrl = NoUrl
  /\ state = None
  /\ flowResult = NoFlow
  /\ settleExit = None
  /\ challenge = FALSE
  /\ status = None
  /\ file = None
  /\ err = None
  /\ thrownAt = None
  /\ viaContinue = FALSE
  /\ elapsed = 0
  /\ previousUrl = NoUrl
  /\ clickedStart = FALSE
  /\ hasStartBtn = FALSE
  /\ statusPolled = FALSE
  /\ normalizedFromPayload = None
  /\ artifactPolled = FALSE
  /\ matchListed = FALSE
  /\ badListed = FALSE
  /\ slept = 0
  /\ exitCode = 0
  /\ printed = {}
  /\ report = NoReport
  /\ IndexerIdle
  /\ lines \in InputFiles
  /\ idx = 0
  /\ byEmail = <<>>
  /\ invalidLines = 0
  /\ errors = <<>>
  /\ extractOut = None
  /\ DetectIdle
  /\ LoadIdle

ExtractNext ==
  \/ ExtractLine
  \/ ExtractFinish

ExtractSpec == ExtractInit /\ [][ExtractNext]_vars

\* ===================================================================
\* detectChallenge on its own: login-flow.ts 12-30 applied to one page
\* ===================================================================
Detect ==
  /\ pc = "detect"
  /\ challengeNow' = detectChallenge(activePage)
  /\ pc' = "detected"
  /\ UNCHANGED activePage
  /\ UNCHANGED <<accounts, i, results, browserOpen, contexts, opened, slept,
                 exitCode, pageVars, urlVars, soVars, flowVars, pollVars, err,
                 thrownAt, viaContinue, elapsed, outVars>>
  /\ UNCHANGED <<indexerVars, extractVars, loadVars>>

DetectInit ==
  /\ accounts = <<>>
  /\ i = 1
  /\ pc = "detect"
  /\ results = <<>>
  /\ browserOpen = FALSE
  /\ contexts = {}
  /\ opened = {}
  /\ controlPage = FALSE
  /\ authPage = FALSE
  /\ authUrl = NoUrl
  /\ state = None
  /\ flowResult = NoFlow
  /\ settleExit = None
  /\ challenge = FALSE
  /\ status = None
  /\ file = None
  /\ err = None
  /\ thrownAt = None
  /\ viaContinue = FALSE
  /\ elapsed = 0
  /\ previousUrl = NoUrl
  /\ clickedStart = FALSE
  /\ hasStartBtn = FALSE
  /\ statusPolled = FALSE
  /\ normalizedFromPayload = None
  /\ artifactPolled = FALSE
  /\ matchListed = FALSE
  /\ badListed = FALSE
  /\ slept = 0
  /\ exitCode = 0
  /\ printed = {}
  /\ report = NoReport
  /\ IndexerIdle
  /\ ExtractIdle
  /\ activePage \in Pages
  /\ challengeNow = FALSE
  /\ LoadIdle

DetectNext == Detect

DetectSpec == DetectInit /\ [][DetectNext]_vars

\* ===================================================================
\* loadAccountJson on its own: io.ts 13-37 applied to one input file
\* ===================================================================
MaxRows == 3

\* The elements of the parsed array: an object with its email, password and
\* plan fields, or a value that is no object.  Strings are sequences of
\* pieces as in the extract command.
Row(email, password, plan) ==
  [object |-> TRUE, email |-> email, password |-> password, plan |-> plan]
NoObjectRow ==
  [object |-> FALSE, email |-> JAbsent, password |-> JAbsent, plan |-> JAbsent]
LoadRows ==
  { Row(JStr(<<"a@x.com">>), JStr(<<"p1">>), JAbsent),
    Row(JStr(<<" ", "A@X.com">>), JStr(<<"p2">>), JStr(<<"plus">>)),
    Row(JStr(<<"B@x.com">>), JStr(<<"p1">>), JStr(<<" ">>)),
    Row(JStr(<<"a@x">>), JStr(<<"p1">>), JAbsent),
    Row(JStr(<<"a@x.com">>), JStr(<<>>), JAbsent),
    Row(JNum(1), JStr(<<"p1">>), JAbsent),
    NoObjectRow }

\* What JSON.parse makes of the input file: it throws, or it returns a value
\* that is no array, or an array of rows.
JsonInputs ==
  { [kind |-> "unparsable", rows |-> <<>>], [kind |-> "object", rows |-> <<>>] }
    \cup { [kind |-> "array", rows |-> rs] :
             rs \in UNION { [1..n -> LoadRows] : n \in 0..MaxRows } }

\* io.ts 24-26 for one row.
RowEmail(row) == IF row.email.kind = "string" THEN trim(row.email.val) ELSE <<>>
RowPassword(row) ==
  IF row.password.kind = "string" THEN row.password.val ELSE <<>>
RowPlan(row) ==
  IF row.plan.kind = "string" THEN
    IF trim(row.plan.val) # <<>> THEN trim(row.plan.val) ELSE <<DefaultPlan>>
  ELSE <<DefaultPlan>>

\* io.ts 22 and 27: the rows that are passed over.
RowSkipped(row) ==
  \/ ~row.object
  \/ RowEmail(row) = <<>>
  \/ ~EMAIL_RE(Chars(RowEmail(row)))
  \/ RowPassword(row) = <<>>

\* io.ts 20-31: the accounts pushed for the rows of the array, in order.
RECURSIVE PushRows(_)
PushRows(rows) ==
  IF rows = <<>> THEN <<>>
  ELSE IF RowSkipped(Head(rows)) THEN PushRows(Tail(rows))
  ELSE << [email |-> RowEmail(Head(rows)),
           password |-> RowPassword(Head(rows)),
           plan |-> RowPlan(Head(rows))] >> \o PushRows(Tail(rows))

\* io.ts 13-37 and main.ts 84; what is thrown goes to main().catch.
LoadAccountJson ==
  /\ pc = "load"
  /\ IF parsed.kind = "unparsable"
     THEN /\ \E m \in {"json_position", "bad_json"} :
               TopLevelCatch(TopLevelText(m, None))
          /\ pc' = "crashed"
          /\ UNCHANGED accounts
     ELSE IF parsed.kind # "array"
     THEN /\ TopLevelCatch(TopLevelText("not_array", None))
          /\ pc' = "crashed"
          /\ UNCHANGED accounts
     ELSE IF PushRows(parsed.rows) = <<>>
     THEN /\ TopLevelCatch(TopLevelText("no_valid_accounts", None))
          /\ pc' = "crashed"
          /\ UNCHANGED accounts
     ELSE /\ accounts' = PushRows(parsed.rows)
          /\ pc' = "loaded"
          /\ UNCHANGED <<exitCode, printed>>
  /\ UNCHANGED <<i, results, browserOpen, contexts, opened, slept, pageVars,
                 urlVars, soVars, flowVars, pollVars, err, thrownAt,
                 viaContinue, elapsed, report>>
  /\ UNCHANGED <<indexerVars, extractVars, detectVars, loadVars>>

LoadInit ==
  /\ accounts = <<>>
  /\ i = 1
  /\ pc = "load"
  /\ results = <<>>
  /\ browserOpen = FALSE
  /\ contexts = {}
  /\ opened = {}
  /\ controlPage = FALSE
  /\ authPage = FALSE
  /\ authUrl = NoUrl
  /\ state = None
  /\ flowResult = NoFlow
  /\ settleExit = None
  /\ challenge = FALSE
  /\ status = None
  /\ file = None
  /\ err = None
  /\ thrownAt = None
  /\ viaContinue = FALSE
  /\ elapsed = 0
  /\ previousUrl = NoUrl
  /\ clickedStart = FALSE
  /\ hasStartBtn = FALSE
  /\ statusPolled = FALSE
  /\ normalizedFromPayload = None
  /\ artifactPolled = FALSE
  /\ matchListed = FALSE
  /\ badListed = FALSE
  /\ slept = 0
  /\ exitCode = 0
  /\ printed = {}
  /\ report = NoReport
  /\ IndexerIdle
  /\ ExtractIdle
  /\ activePage = NoPage
  /\ challengeNow = FALSE
  /\ parsed \in JsonInputs

LoadNext == LoadAccountJson

LoadSpec == LoadInit /\ [][LoadNext]_vars

\* ===================================================================
\* Properties
\* ===================================================================
Terminal == {"done", "failed", "crashed"}

\* The loop of runAuthCommand has run to its end.
LoopFinished == pc \in {"closeBrowser", "report", "done", "failed"}

\* The AuthResult of account i has just been pushed and the locals of the
\* iteration are still in scope.
Recorded == pc = "finally"
LastResult == results[Len(results)]

\* The pcs at which a step of account i is still to be taken inside the loop
\* body, before its AuthResult is pushed.
StepPcs ==
  {"newPage", "login", "loginWait", "gotoOauth", "startOAuth", "waitEnabled",
   "readUrl", "fallback", "getState", "newAuthPage", "loginFlow", "settle",
   "resolve", "mainChallenge", "pollStatus", "decide", "waitFile", "catch"}

\* C1: when the loop of runAuthCommand has finished, results holds exactly one
\* AuthResult per input account, in input order, each with a status among
\* success, failed, skipped; while the loop runs, results is the aligned
\* prefix for the accounts already handled.
C1_OneResultPerAccount ==
  /\ Len(results) <= Len(accounts)
  /\ \A k \in 1..Len(results) :
       /\ results[k].email = accounts[k].email
       /\ results[k].status \in {"success", "failed", "skipped"}
  /\ LoopFinished => Len(results) = Len(accounts)
  /\ Recorded => Len(results) = i

\* C1 witness: a batch of two accounts finished its loop, the first account on
\* the catch path and the second on the success path.
C1_Witness ==
  /\ pc = "done"
  /\ Len(accounts) = 2
  /\ Len(results) = 2
  /\ results[1].message \in PwErrors
  /\ results[2].status = "success"

\* C2: account processing is strictly sequential: whenever a step of account
\* k has been taken (its context was opened) the AuthResults of all accounts
\* before k are in results, and at every step of the loop body for account i
\* exactly the i-1 earlier results are there.
C2_StrictlySequential ==
  /\ \A k \in opened : k <= Len(results) + 1
  /\ pc \in StepPcs \cup {"newContext"} => Len(results) = i - 1

\* C2 witness: the second account is in its login flow after the first was
\* recorded.
C2_Witness ==
  /\ pc = "settle"
  /\ i = 2
  /\ opened = {1, 2}
  /\ Len(results) = 1

\* C3 as claimed: whatever happens while account i is processed, opening its
\* browsing context included, a result is recorded for it and the remaining
\* accounts are processed: a run whose browser was launched never ends with
\* fewer results than accounts.
C3_NoOutcomeEndsBatch ==
  (pc \in Terminal /\ opened # {}) =>
    /\ opened = 1..Len(accounts)
    /\ Len(results) = Len(accounts)

\* C4 as claimed: with the flow result (invalidCredentials, challenge) and the
\* polled status, the recorded code is LOGIN_REJECTED if invalidCredentials,
\* else CHALLENGE_REQUIRED if the flow reported a challenge, else
\* CPAMC_OAUTH_FAILED if the status is error or waiting, else the outcome of
\* the artifact verification.
C4_PrecedenceFlowOnly ==
  (Recorded /\ status # None) =>
    LET code == LastResult.code IN
    IF flowResult.invalidCredentials THEN code = "LOGIN_REJECTED"
    ELSE IF flowResult.challenge THEN code = "CHALLENGE_REQUIRED"
    ELSE IF status = "error" THEN code = "CPAMC_OAUTH_FAILED"
    ELSE IF status = "waiting" THEN code = "CPAMC_OAUTH_FAILED"
    ELSE /\ artifactPolled
         /\ code \notin {"LOGIN_REJECTED", "CHALLENGE_REQUIRED", "CPAMC_OAUTH_FAILED"}

\* C4 amended: the same precedence, where the challenge is the one the flow
\* reported or the one the orchestrator's own probe of the identity page
\* found after the flow returned.
C4_Precedence ==
  (Recorded /\ status # None) =>
    LET code == LastResult.code IN
    IF flowResult.invalidCredentials THEN code = "LOGIN_REJECTED"
    ELSE IF challenge THEN code = "CHALLENGE_REQUIRED"
    ELSE IF status = "error" THEN code = "CPAMC_OAUTH_FAILED"
    ELSE IF status = "waiting" THEN code = "CPAMC_OAUTH_FAILED"
    ELSE /\ artifactPolled
         /\ code \notin {"LOGIN_REJECTED", "CHALLENGE_REQUIRED", "CPAMC_OAUTH_FAILED"}

\* C4 witness: invalid credentials and a challenge together with a console
\* status of success, recorded as LOGIN_REJECTED.
C4_Witness ==
  /\ Recorded
  /\ flowResult.invalidCredentials
  /\ challenge
  /\ status = "success"
  /\ LastResult.code = "LOGIN_REJECTED"

C6_OneContext ==
  /\ Cardinality(contexts) <= 1
  /\ contexts \subseteq {i}
  /\ pc \in {"loop", "newContext", "sleep"} => contexts = {}
  /\ pc \in Terminal \cup {"report"} => contexts = {}

\* C6 witness: the second account's context is about to be opened after the
\* first account left its iteration by a continue.
C6_Witness ==
  /\ pc = "newContext"
  /\ i = 2
  /\ slept = 0
  /\ Len(results) = 1
  /\ results[1].code = "CHALLENGE_REQUIRED"

\* C7: the artifact verifier runs only when the flow reported neither invalid
\* credentials nor a challenge, no challenge was found by the orchestrator,
\* and the console status is success.
C7_VerifierOnlyOnSuccess ==
  (artifactPolled \/ pc = "waitFile") =>
    /\ flowResult.returned
    /\ ~flowResult.invalidCredentials
    /\ ~flowResult.challenge
    /\ ~challenge
    /\ status = "success"

\* C7 witness: the verifier has listed the directory once, found nothing and
\* is about to list it again.
C7_Witness ==
  /\ pc = "waitFile"
  /\ artifactPolled
  /\ elapsed > 0

\* C8 as claimed: once the verifier was started, if it returns no artifact the
\* AuthResult is failed with code WRITE_FAILED, whatever the state of the
\* directory.
C8_WriteFailed ==
  (Recorded /\ artifactPolled /\ file = None) =>
    /\ LastResult.status = "failed"
    /\ LastResult.code = "WRITE_FAILED"

\* C9: an authorization URL that does not parse or has no state parameter
\* fails the attempt with CPAMC_LINK_NOT_FOUND, and neither the identity
\* surface is opened nor the status polled for that account.
C9_MissingState ==
  (authUrl # NoUrl /\ (~authUrl.parseable \/ authUrl.state = "null")) =>
    /\ pc \in {"getState", "finally"}
    /\ ~authPage
    /\ ~statusPolled
    /\ Recorded =>
         /\ LastResult.status = "failed"
         /\ LastResult.code = "CPAMC_LINK_NOT_FOUND"

\* C9 witness: an unparseable URL came back from the fallback API and the
\* attempt was recorded.
C9_Witness ==
  /\ Recorded
  /\ authUrl # NoUrl
  /\ ~authUrl.parseable
  /\ LastResult.code = "CPAMC_LINK_NOT_FOUND"

\* C10: every run terminates: with every call returning and every wait
\* advancing the clock, each polling loop is left once its timeout has
\* elapsed and the run reaches the end of runAuthCommand.
C10_Terminates == <>(pc \in Terminal)

\* C10 witness: a run ended after the artifact poll of its last account ran
\* into its timeout.
C10_Witness ==
  /\ pc = "done"
  /\ results[Len(results)].code = "WRITE_FAILED"

\* --------------------------------------------------- the rotation indexer
\* A merge has written the index file; outFile is what the last one wrote.
Written == lastWrite.epoch >= 0

\* The entry of the list that Map.set leaves under the key: the last one.
LastWithKey(accs, key) ==
  accs[CHOOSE k \in 1..Len(accs) :
         /\ accountKey(accs[k]) = key
         /\ \A j \in (k + 1)..Len(accs) : accountKey(accs[j]) # key]

C12_NeverShrinks ==
  [][~overlapped' => IndexKeys(outFile) \subseteq IndexKeys(outFile')]_vars

\* A serialized merge has written an index that still holds a key an earlier
\* invocation scanned and its own scan did not find.
C12_Witness ==
  /\ ~overlapped
  /\ Written
  /\ \E key \in scannedKeys :
       /\ key \notin Keys(lastWrite.scanned)
       /\ key \in IndexKeys(outFile)

\* The counts of an index are the partition of its accounts by status.
Statuses == {"active", "expired", "disabled", "invalid"}
CountsPartition(ix, accs) ==
  /\ ix.total = Len(accs)
  /\ ix.active + ix.expired + ix.disabled + ix.invalid = ix.total
  /\ ix.active = CountStatus(accs, "active")
  /\ ix.expired = CountStatus(accs, "expired")
  /\ ix.disabled = CountStatus(accs, "disabled")
  /\ ix.invalid = CountStatus(accs, "invalid")

\* C13: every RotateIndex produced by a scan and every index persisted by a
\* merge has total = accounts.length and active + expired + disabled +
\* invalid = total, each count being the number of accounts of that status,
\* whatever prior index content the merge accepted.
C13_CountsPartition ==
  /\ \A p \in Invocations :
       rpc[p] \in Running => CountsPartition(index[p], index[p].accounts)
  /\ Written => CountsPartition(outFile, IndexEntries(outFile))

\* The status the claim gives a file: disabled: true first, then an expired
\* timestamp in the past, invalid for an unparsable file, active otherwise.
PastExpiry(c, t) ==
  /\ Field(c, "expired").kind = "string"
  /\ DateParse(Field(c, "expired").val).finite
  /\ DateParse(Field(c, "expired").val).ms < t
ClaimedStatus(c, t) ==
  IF Field(c, "disabled") = JBool("true") THEN "disabled"
  ELSE IF PastExpiry(c, t) THEN "expired"
  ELSE IF c.json = "unparsable" THEN "invalid"
  ELSE "active"
\* The same, with a file whose JSON value is null counted as invalid.
AmendedStatus(c, t) ==
  IF Field(c, "disabled") = JBool("true") THEN "disabled"
  ELSE IF PastExpiry(c, t) THEN "expired"
  ELSE IF c.json \in {"unparsable", "null"} THEN "invalid"
  ELSE "active"

\* Invocation p has scanned the directory and the directory is as it was.
FreshScan(p) == rpc[p] = "scanned" /\ scanEpoch[p] = dirChanges

\* C14 (as claimed): classification is a total function of the file content:
\* disabled: true => disabled regardless of expired; else an expired
\* timestamp in the past => expired; an unparsable file => invalid; every
\* other file => active.
C14_ClassificationAsClaimed ==
  \A p \in Invocations :
    FreshScan(p) =>
      \A k \in 1..Len(index[p].accounts) :
        LET e == index[p].accounts[k]
        IN  e.status = JStr(ClaimedStatus(dir[basename(e.file)], index[p].generated_at))

\* C14 (amended): every artifact file of the directory is given one status:
\* disabled: true => disabled regardless of expired; else an expired
\* timestamp before the time of the scan => expired; a file that is not JSON
\* or whose JSON value is null => invalid; every other file => active.
C14_Classification ==
  \A p \in Invocations :
    FreshScan(p) =>
      /\ Len(index[p].accounts) =
           Cardinality({n \in ArtifactNames : dir[n] # Absent})
      /\ \A k \in 1..Len(index[p].accounts) :
           LET e == index[p].accounts[k]
           IN  e.status = JStr(AmendedStatus(dir[basename(e.file)], index[p].generated_at))

\* A scan has classified a file holding null as invalid, or a disabled file
\* whose expired timestamp is in the past as disabled.
C14_Witness ==
  \E p \in Invocations :
    /\ FreshScan(p)
    /\ \E k \in 1..Len(index[p].accounts) :
         LET e == index[p].accounts[k]
             c == dir[basename(e.file)]
         IN  \/ c = JsonNull /\ e.status = JStr("invalid")
             \/ /\ c = DisabledToken
                /\ PastExpiry(c, index[p].generated_at)
                /\ e.status = JStr("disabled")

\* Two merges have written one after the other, no invocation ever
\* overlapping another, and the directory has not changed since before the
\* first of the two scanned it.
TwoRunsUnchangedDir ==
  /\ ~overlapped
  /\ prevWrite.epoch >= 0
  /\ prevWrite.epoch = dirChanges
  /\ lastWrite.epoch = dirChanges

\* C15 (as claimed): running scan + merge twice against an unchanged artifact
\* directory and the same output path yields persisted indexes whose accounts
\* sets are identical.
C15_IdempotentAsClaimed ==
  TwoRunsUnchangedDir => lastWrite.accounts = prevWrite.accounts

\* No artifact that is not disabled has an expired timestamp that is past at
\* one of the two scans and not at the other.
NoExpiryBetweenScans ==
  \A n \in ArtifactNames :
    Field(dir[n], "disabled") # JBool("true") =>
      PastExpiry(dir[n], prevWrite.now) = PastExpiry(dir[n], lastWrite.now)

\* C15 (amended): running scan + merge twice against an unchanged artifact
\* directory and the same output path yields persisted indexes whose accounts
\* sets are identical, when no artifact that is not disabled has an expired
\* timestamp lying between the times of the two scans.
C15_Idempotent ==
  (TwoRunsUnchangedDir /\ NoExpiryBetweenScans) =>
    lastWrite.accounts = prevWrite.accounts

\* Two serialized runs over an unchanged directory, at different times, have
\* written the same accounts, a token with an expired timestamp among them.
C15_Witness ==
  /\ TwoRunsUnchangedDir
  /\ NoExpiryBetweenScans
  /\ prevWrite.now < lastWrite.now
  /\ lastWrite.accounts = prevWrite.accounts
  /\ \E e \in lastWrite.accounts : e.expired.kind = "string"

\* C16 (as claimed): two artifact files of the scanned directory with
\* different file names always yield two separate entries in the persisted
\* index, both counted in total, even when both map to the same email.
C16_SeparateEntriesAsClaimed ==
  Written =>
    LET B == lastWrite.scanned
        M == IndexEntries(outFile)
    IN  \A j, k \in 1..Len(B) :
          basename(B[j].file) # basename(B[k].file) =>
            /\ \E m, n \in 1..Len(M) :
                 m # n /\ M[m].file = B[j].file /\ M[n].file = B[k].file
            /\ outFile.total >= 2

\* C16 (amended): two artifact files of the scanned directory yield two
\* separate entries in the persisted index, both counted in total, exactly
\* when lower(email) + "|" + lower(basename(file)) differ, in particular
\* whenever their names differ in more than letter case, even when both map
\* to the same email; files whose keys coincide are one entry, the file
\* listed last.
LowerName(e) == LowerWords(basename(e.file))
C16_SeparateEntries ==
  Written =>
    LET B == lastWrite.scanned
        M == IndexEntries(outFile)
    IN  /\ outFile.total = Len(M)
        /\ \A j, k \in 1..Len(B) :
             /\ LowerName(B[j]) # LowerName(B[k]) =>
                  \E m, n \in 1..Len(M) :
                    /\ m # n
                    /\ LowerName(M[m]) = LowerName(B[j])
                    /\ LowerName(M[n]) = LowerName(B[k])
             /\ IF accountKey(B[j]) # accountKey(B[k])
                THEN \E m, n \in 1..Len(M) :
                       /\ m # n
                       /\ accountKey(M[m]) = accountKey(B[j])
                       /\ accountKey(M[n]) = accountKey(B[k])
                ELSE /\ Cardinality({m \in 1..Len(M) :
                                      accountKey(M[m]) = accountKey(B[j])}) = 1
                     /\ j <= k => B[j] = B[k] \/ B[j] \notin Range(M)

\* A merge has written two entries for two scanned files that map to the
\* same email.
C16_Witness ==
  /\ Written
  /\ \E a, b \in Range(IndexEntries(outFile)) :
       /\ a \in Range(lastWrite.scanned)
       /\ b \in Range(lastWrite.scanned)
       /\ LowerWords(a.email) = LowerWords(b.email)
       /\ basename(a.file) # basename(b.file)
       /\ outFile.total >= 2

\* An index file from which nothing can be loaded: missing, not JSON, null,
\* or without an accounts array.
Unloadable(f) ==
  \/ f.json \in {"missing", "unparsable", "null"}
  \/ f.accounts.kind # "array"
\* An index file that is missing or does not have the RotateIndex shape.
WellFormedItem(x) ==
  Accepted(x) /\ x.status.kind = "string" /\ x.status.val \in Statuses
Malformed(f) ==
  \/ Unloadable(f)
  \/ \E k \in 1..Len(f.accounts.items) : ~WellFormedItem(f.accounts.items[k])

\* The last merge went as a merge into an empty index goes: the index it
\* wrote holds the entries of its scan and nothing else.
MergedAsFresh ==
  /\ lastWrite.existing = <<>>
  /\ IndexKeys(outFile) = Keys(lastWrite.scanned)
  /\ Range(IndexEntries(outFile)) \subseteq Range(lastWrite.scanned)

\* C17 (as claimed): a missing, unparsable or malformed prior index file
\* never blocks a merge: it is treated as an empty set of existing entries,
\* no error is raised, and the index persisted holds exactly the entries of
\* the fresh scan.
C17_MalformedIsEmptyAsClaimed ==
  /\ \A p \in Invocations :
       /\ rpc[p] # "crashed"
       /\ (rpc[p] = "read" /\ Malformed(raw[p])) => existingAccounts[p] = <<>>
  /\ (Written /\ Malformed(lastWrite.raw)) => MergedAsFresh

\* C17 (amended): a prior index file that is missing, unparsable, null or
\* without an accounts array never blocks a merge: it is treated as an empty
\* set of existing entries, no error is raised, and the index persisted holds
\* exactly the entries of the fresh scan.  No other content blocks a merge
\* either: of an accounts array, the items that are objects with a string
\* email and a string file are the existing entries.
C17_UnloadableIsEmpty ==
  /\ \A p \in Invocations :
       /\ rpc[p] # "crashed"
       /\ (rpc[p] = "read" /\ Unloadable(raw[p])) => existingAccounts[p] = <<>>
       /\ rpc[p] = "read" => existingAccounts[p] = IndexEntries(raw[p])
  /\ (Written /\ Unloadable(lastWrite.raw)) => MergedAsFresh

\* A merge has written the entries of its scan over an index file that is
\* not JSON or holds null.
C17_Witness ==
  /\ Written
  /\ lastWrite.raw.json \in {"unparsable", "null"}
  /\ IndexEntries(outFile) # <<>>

\* C18: the merge is an unlocked read-modify-write.  When invocations on the
\* same output path are serialized, the persisted index holds every key that
\* an invocation that wrote has scanned; when they interleave, a state is
\* reachable in which it lacks one (the witness).
C18_SerializedKeepsScanned ==
  ~overlapped => scannedKeys \subseteq IndexKeys(outFile)

\* Two invocations have interleaved their reads and writes and the persisted
\* index lacks a key that one of them scanned and wrote.
C18_Witness ==
  /\ overlapped
  /\ \A p \in Invocations : rpc[p] = "exited"
  /\ scannedKeys \ IndexKeys(outFile) # {}

\* C19: when console login fails, by the invalid-key indicator or by the
\* timeout elapsing while the login form is still visible, the AuthResult of
\* the account is failed with code CPAMC_LOGIN_FAILED.
ConsoleLoginFailed ==
  /\ Recorded
  /\ thrownAt = "loginWait"
  /\ err \in {"invalid_key", "login_timeout"}
C19_LoginFailureCode ==
  ConsoleLoginFailed =>
    /\ LastResult.status = "failed"
    /\ LastResult.code = "CPAMC_LOGIN_FAILED"

\* C20: startOAuth returns an authorization URL or the AuthResult of the
\* account is failed with code CPAMC_LINK_NOT_FOUND, for every way startOAuth
\* can fail (no URL found, start control still disabled, panel not rendered).
StartOAuthPcs == {"startOAuth", "waitEnabled", "readUrl", "fallback"}
StartOAuthFailed == Recorded /\ thrownAt \in StartOAuthPcs
C20_StartOAuthFailureCode ==
  StartOAuthFailed =>
    /\ LastResult.status = "failed"
    /\ LastResult.code = "CPAMC_LINK_NOT_FOUND"

\* ------------------------------------------------- the orchestrator, cont.
\* The AuthResult pushed by the step.
Pushed == Len(results') = Len(results) + 1
NewResult == results'[Len(results')]

\* pollCpamcAuthStatus is at its loop condition with the timeout elapsed.
PollTimedOut == pc = "pollStatus" /\ elapsed >= settleTimeoutMs

\* C21 (as claimed): pollStatus returns waiting, and does not raise, whenever
\* its timeout elapses without a success or error classification; the
\* orchestrator then records the account as failed with code
\* CPAMC_OAUTH_FAILED.
C21_WaitingIsOAuthFailedAsClaimed ==
  [][/\ PollTimedOut => (status' = "waiting" /\ pc' = "decide" /\ err' = None)
     /\ (pc = "decide" /\ status = "waiting") =>
          /\ Pushed
          /\ NewResult.status = "failed"
          /\ NewResult.code = "CPAMC_OAUTH_FAILED"]_vars

\* C21 (amended): pollStatus returns waiting, and does not raise, whenever its
\* timeout elapses without a success or error classification; the
\* orchestrator then records the account as failed, with code
\* CPAMC_OAUTH_FAILED when neither invalid credentials nor a challenge were
\* found, and with LOGIN_REJECTED or CHALLENGE_REQUIRED when they were.
C21_WaitingIsOAuthFailed ==
  [][/\ PollTimedOut => (status' = "waiting" /\ pc' = "decide" /\ err' = None)
     /\ (pc = "decide" /\ status = "waiting") =>
          /\ Pushed
          /\ NewResult.status = "failed"
          /\ NewResult.code =
               IF flowResult.invalidCredentials THEN "LOGIN_REJECTED"
               ELSE IF challenge THEN "CHALLENGE_REQUIRED"
               ELSE "CPAMC_OAUTH_FAILED"]_vars

\* The status poll of an account without invalid credentials or challenge ran
\* into its timeout after at least one query and the account was recorded as
\* CPAMC_OAUTH_FAILED.
C21_Witness ==
  /\ Recorded
  /\ statusPolled
  /\ status = "waiting"
  /\ ~flowResult.invalidCredentials
  /\ ~challenge
  /\ LastResult.status = "failed"
  /\ LastResult.code = "CPAMC_OAUTH_FAILED"

\* The line holds the secret as a contiguous run of its tokens.
Discloses(line, secret) == Includes(line, secret)

\* C22: nothing the process prints (progress lines, summaries, the top-level
\* error line) contains an account password, the management key or a full
\* account email; progress lines show the redacted form of the email.
C22_NoSecretPrinted ==
  \A line \in printed :
    /\ ~Discloses(line, <<ManagementKey>>)
    /\ \A k \in 1..Len(accounts) :
         /\ ~Discloses(line, <<accounts[k].password>>)
         /\ ~Discloses(line, EmailChars(accounts[k].email))

\* main().catch has run: the error line was printed.
TopLevelFailure == \E line \in printed : line[1] = "Error:"

\* C23: the process exit code is nonzero only for an unexpected top-level
\* failure: no failure recorded for an account changes it, whatever its
\* code, and a run that ends normally leaves those failures in the report.
C23_ExitCodeTopLevelOnly ==
  /\ exitCode \in {0, 1}
  /\ exitCode # 0 <=> TopLevelFailure
  /\ exitCode # 0 => pc \in {"crashed", "failed"}
  /\ pc = "done" =>
       /\ exitCode = 0
       /\ report.results = results
       /\ report.failed = CountResults(results, "failed")

\* A run of two accounts that both failed, one by a caught exception, ended
\* normally with exit code 0 and both failures in the report.
C23_Witness ==
  /\ pc = "done"
  /\ exitCode = 0
  /\ report.mode = "run"
  /\ report.failed = 2
  /\ results[1].code = "UNKNOWN"
  /\ results[2].code = "CPAMC_OAUTH_FAILED"

\* C25: in dry-run mode no browser is launched and no account is contacted;
\* the report has mode dry-run, one result per account in input order, every
\* result with status skipped, and total = skipped = number of accounts with
\* success = failed = 0.
C25_DryRun ==
  /\ pc = "dryRun" => (~browserOpen /\ opened = {} /\ results = <<>>)
  /\ report.mode = "dry-run" =>
       /\ ~browserOpen
       /\ opened = {}
       /\ contexts = {}
       /\ ~controlPage /\ ~authPage /\ ~statusPolled /\ ~artifactPolled
       /\ Len(report.results) = Len(accounts)
       /\ \A k \in 1..Len(accounts) :
            /\ report.results[k].email = accounts[k].email
            /\ report.results[k].status = "skipped"
       /\ report.total = Len(accounts)
       /\ report.skipped = Len(accounts)
       /\ report.success = 0
       /\ report.failed = 0

\* A dry run over a list that names the same account twice has written its
\* report.
C25_Witness ==
  /\ pc = "done"
  /\ report.mode = "dry-run"
  /\ Len(accounts) = 2
  /\ accounts[1].email = accounts[2].email
  /\ report.total = 2

\* C26: between any two consecutive accounts the orchestrator waits the
\* configured delay: whatever the outcome of account i (success, each failure
\* code, caught exception), the delay has been waited after its context was
\* closed and before the context of account i+1 is opened, so that i-1 delays
\* have been waited when the context of account i is about to be opened.
C26_DelayBetweenAccounts ==
  pc = "newContext" => (contexts = {} /\ slept = i - 1)

\* C27: an exception caught during an account's processing is classified by
\* the first matching keyword in its lower-cased message, in this order:
\* "management key" => CPAMC_LOGIN_FAILED; else "auth url" =>
\* CPAMC_LINK_NOT_FOUND; else "timeout" => LOGIN_REJECTED; else UNKNOWN; the
\* result is recorded with status failed and the exception message.
C27_CatchClassification ==
  (Recorded /\ err # None) =>
    LET lower == LowerWords(MessageText(err)) IN
    /\ LastResult.status = "failed"
    /\ LastResult.message = err
    /\ LastResult.file = None
    /\ LastResult.code =
         IF Includes(lower, <<"management", "key">>) THEN "CPAMC_LOGIN_FAILED"
         ELSE IF Includes(lower, <<"auth", "url">>) THEN "CPAMC_LINK_NOT_FOUND"
         ELSE IF Includes(lower, <<"timeout">>) THEN "LOGIN_REJECTED"
         ELSE "UNKNOWN"

\* The fill of the key input timed out: the message holds "Management Key"
\* (in the locator of the call log) and "Timeout", and the result was
\* recorded as CPAMC_LOGIN_FAILED.
C27_Witness ==
  /\ Recorded
  /\ err = "pw_fill_timeout"
  /\ Includes(LowerWords(MessageText(err)), <<"timeout">>)
  /\ LastResult.code = "CPAMC_LOGIN_FAILED"

\* The status poll of the account has ended: it returned a status or it
\* failed.
PollEnded == status # None \/ thrownAt = "pollStatus"

\* C28: once the flow driver has reported invalidCredentials (respectively a
\* challenge), the recorded code is LOGIN_REJECTED (respectively
\* CHALLENGE_REQUIRED) for every outcome of the console status poll made
\* before the result is recorded: success, error, waiting, or the poll itself
\* failing.
C28_FlowSignalSurvivesPoll ==
  (Recorded /\ flowResult.returned /\ PollEnded) =>
    /\ flowResult.invalidCredentials =>
         (LastResult.status = "failed" /\ LastResult.code = "LOGIN_REJECTED")
    /\ (flowResult.challenge /\ ~flowResult.invalidCredentials) =>
         (LastResult.status = "failed" /\ LastResult.code = "CHALLENGE_REQUIRED")

\* C29: a success AuthResult is recorded only if some listing made by the
\* artifact verifier for the account held a file named codex-*.json whose
\* email field is the account's email up to letter case, and the result's
\* file is the path of such a file; files that do not parse are passed over
\* and never raise an error.
C29_SuccessNeedsArtifact ==
  /\ (Recorded /\ LastResult.status = "success") =>
       /\ artifactPolled
       /\ matchListed
       /\ LastResult.file = file
       /\ \E f \in Files :
            /\ f.path = LastResult.file
            /\ ArtifactOf(f, accounts[i].email)
  /\ badListed => err # "bad_json"
  /\ thrownAt = "waitFile" => err = "enoent"

\* A success was recorded for an account after a listing of the verifier
\* that held a file that does not parse.
C29_Witness ==
  /\ Recorded
  /\ LastResult.status = "success"
  /\ badListed
  /\ LastResult.file = "codex-b.json"

\* C30: with a correlation token, pollCpamcAuthStatus returns success or error
\* only when the status/state/result field of the response it just read
\* classifies as success or error, and returns waiting only at the timeout.
C30_StatusFieldDecides ==
  [][(pc = "pollStatus" /\ pc' = "decide")
       => /\ status' \in {"success", "error"} => normalizedFromPayload' = status'
          /\ status' = "waiting" => elapsed >= settleTimeoutMs]_vars

\* Line k of the input is taken, and no later line that is taken has the
\* same lower-cased email.
LastValidLine(k) ==
  /\ LineCode(lines[k]) = "ok"
  /\ \A l \in (k + 1)..Len(lines) :
       LineCode(lines[l]) = "ok"
         => LowerWords(LineEmail(lines[l])) # LowerWords(LineEmail(lines[k]))

\* C24: once the extraction is done, the extracted list has at most one
\* record per lower-cased email, every record carries the email and the
\* password of the last valid line with its lower-cased email, and every
\* email of a valid line has its record.
C24_KeepLastEntry ==
  pc = "done" /\ lines # <<>> =>
    LET accs == extractOut.accounts IN
    /\ \A a, b \in 1..Len(accs) :
         LowerWords(accs[a].email) = LowerWords(accs[b].email) => a = b
    /\ \A k \in 1..Len(lines) :
         LastValidLine(k) =>
           \E a \in 1..Len(accs) :
             /\ accs[a].email = LineEmail(lines[k])
             /\ accs[a].password = LinePassword(lines[k])
    /\ \A a \in 1..Len(accs) :
         \E k \in 1..Len(lines) :
           /\ LastValidLine(k)
           /\ accs[a].email = LineEmail(lines[k])
           /\ accs[a].password = LinePassword(lines[k])

\* Two valid lines with the same lower-cased email, written differently and
\* with different passwords, have been extracted.
C24_Witness ==
  /\ pc = "done"
  /\ lines # <<>>
  /\ \E k, l \in 1..Len(lines) :
       /\ k < l
       /\ LineCode(lines[k]) = "ok"
       /\ LastValidLine(l)
       /\ LowerWords(LineEmail(lines[k])) = LowerWords(LineEmail(lines[l]))
       /\ LineEmail(lines[k]) # LineEmail(lines[l])
       /\ LinePassword(lines[k]) # LinePassword(lines[l])
       /\ Len(extractOut.accounts) = 1

\* C31: a URL read off the panel whose state equals the state of the
\* pre-click snapshot is not returned from the loop that reads the panel:
\* whenever that loop returns a URL and the snapshot had a state, the state
\* of the returned URL differs from the snapshot's.
C31_StaleUrlNotReturned ==
  [][(pc = "readUrl" /\ pc' = "getState" /\ ~Falsy(previousState))
       => getStateFromAuthUrl(authUrl') # previousState]_vars

\* C32: when the invalid-credentials marker was visible in the tick that
\* ended the settle loop, the result runLoginFlow returns has
\* invalidCredentials = true.
C32_InvalidMarkerIsReported ==
  (flowResult.returned /\ settleExit = "invalid")
    => flowResult.invalidCredentials

\* C33: detectChallenge returns false whenever the body text of some frame of
\* the page looks like the consent surface; otherwise it returns true exactly
\* when a configured challenge selector is visible or the page content holds,
\* in any case of letters, a configured keyword outside the exclusion set.
C33_DetectChallenge ==
  pc = "detected" =>
    IF \E f \in activePage.frames :
         \E k \in 1..(Len(f) - 1) : Lower(f[k]) = "to" /\ Lower(f[k + 1]) = "codex"
    THEN challengeNow = FALSE
    ELSE challengeNow <=>
           \/ activePage.selector
           \/ \E kw \in challengeTextPatterns :
                /\ Lower(kw) \notin overlyBroad
                /\ \E h \in activePage.html : Lower(h) = Lower(kw)

\* A page that shows the consent surface in one frame next to a frame that
\* does not, with a challenge selector visible and a keyword in its content,
\* has been probed.
C33_Witness ==
  /\ pc = "detected"
  /\ activePage.frames = FrameTexts
  /\ activePage.selector
  /\ "Two-Factor" \in activePage.html
  /\ challengeNow = FALSE

\* Every account of the loaded list has an email of valid shape and a
\* password that is not empty.
LoadedValidated ==
  pc = "loaded" =>
    \A k \in 1..Len(accounts) :
      /\ EMAIL_RE(Chars(accounts[k].email))
      /\ accounts[k].password # <<>>

\* C34: the account list loadAccountJson hands to runAuthCommand holds only
\* validated records, and no two of its records have the same lower-cased
\* email.
C34_LoadedValidatedAndDistinct ==
  /\ LoadedValidated
  /\ pc = "loaded" =>
       \A k, l \in 1..Len(accounts) :
         LowerWords(accounts[k].email) = LowerWords(accounts[l].email) => k = l

FailureCodes ==
  {"INVALID_INPUT", "LOGIN_REJECTED", "CHALLENGE_REQUIRED", "TOKEN_NOT_FOUND",
   "WRITE_FAILED", "CPAMC_LOGIN_FAILED", "CPAMC_LINK_NOT_FOUND",
   "CPAMC_OAUTH_FAILED", "CALLBACK_URL_NOT_CAPTURED", "CALLBACK_SUBMIT_FAILED",
   "UNKNOWN"}

\* C36: every result recorded for an account whose processing was started
\* (run mode) has status success or failed; a success has a file and no
\* failure code, a failure has a failure code and no file.
C36_WellFormedResults ==
  \A k \in 1..Len(results) :
    k \in opened =>
      /\ results[k].status \in {"success", "failed"}
      /\ results[k].status = "success"
           => (results[k].file # None /\ results[k].code = None)
      /\ results[k].status = "failed"
           => (results[k].code \in FailureCodes /\ results[k].file = None)

\* A run has recorded a success and a failure.
C36_Witness ==
  /\ Len(results) = 2
  /\ opened = {1, 2}
  /\ results[1].status = "success"
  /\ results[2].status = "failed"
  /\ results[2].code = "WRITE_FAILED"

\* The settle loop ran into its timeout, runLoginFlow returned without an
\* invalid-credentials marker and without a challenge, the console status
\* poll returned and the account's result is recorded.
TimedOutFlowRecorded ==
  /\ Recorded
  /\ settleExit = "timeout"
  /\ flowResult.returned
  /\ ~flowResult.invalidCredentials
  /\ ~flowResult.challenge
  /\ status # None

\* C37 as claimed: a settle loop that ends by timeout makes runLoginFlow
\* return challenge = false and invalidCredentials = false, and the outcome is
\* then decided by the console status and the artifact check alone.
C37_TimeoutDecidedByPollAsClaimed ==
  /\ (flowResult.returned /\ settleExit = "timeout")
       => (~flowResult.challenge /\ ~flowResult.invalidCredentials)
  /\ TimedOutFlowRecorded =>
       IF status \in {"error", "waiting"}
       THEN LastResult.code = "CPAMC_OAUTH_FAILED"
       ELSE /\ artifactPolled
            /\ \/ LastResult.status = "success"
               \/ LastResult.code = "WRITE_FAILED"
               \/ thrownAt = "waitFile"

\* C37 amended: when the settle loop ends by timeout and the look at the page
\* after the loop finds neither marker nor challenge, the outcome is decided
\* by the orchestrator's own challenge probe, then the console status, then
\* the artifact check, whose listing may itself fail.
C37_TimeoutDecidedByPoll ==
  TimedOutFlowRecorded =>
    IF challenge THEN LastResult.code = "CHALLENGE_REQUIRED"
    ELSE IF status \in {"error", "waiting"}
    THEN LastResult.code = "CPAMC_OAUTH_FAILED"
    ELSE /\ artifactPolled
         /\ \/ LastResult.status = "success"
            \/ LastResult.code = "WRITE_FAILED"
            \/ thrownAt = "waitFile"

\* The settle loop timed out and the account is recorded as a success.
C37_Witness ==
  /\ TimedOutFlowRecorded
  /\ ~challenge
  /\ status = "success"
  /\ LastResult.status = "success"

====
